---------------------------- MODULE Spec2Model ----------------------------
(***************************************************************************)
(* State-machine model of the Browser Crush core: the virtual file store   *)
(* with its search index (VirtualFileSystem / FileIndex), the session      *)
(* file-content cache of the StorageManager, the ChangeTracker with its    *)
(* undo/redo stacks, and the file tools that drive them.                   *)
(*                                                                         *)
(* Text is modelled as a sequence of one-character strings, so that the    *)
(* string operations of the source (split, tokenize, indexOf, replace,     *)
(* the rolling hash) are computed and not assumed.  The JavaScript value   *)
(* null is the one-element sequence Null, which no text equals.            *)
(*                                                                         *)
(* Reading of two globals the source leaves to the page that loads it:     *)
(* `Storage` in VirtualFileSystem is the StorageManager instance           *)
(* (storage.js, storeFileContent / getFileContent), and                    *)
(* `window.fileSystem` in ChangeTracker is the VirtualFileSystem the       *)
(* tools were built with (prompts.js:524).                                 *)
(*                                                                         *)
(* The module also models the tool registry with its argument validation,  *)
(* the context selection of the ContextManager, and the request loop of    *)
(* the CodingAgent (processMessage), whose awaits are the steps at which   *)
(* another prompt can arrive.                                              *)
(***************************************************************************)
EXTENDS Integers, Sequences, FiniteSets, TLC

VARIABLES
    files,        \* VirtualFileSystem.files : normalized path -> FileEntry
    tokenIndex,   \* FileIndex.tokenIndex    : set of <<token, filePath>>
    lineIndex,    \* FileIndex.lineIndex     : filePath -> LineInfo[]
    symbolIndex,  \* FileIndex.symbolIndex   : symbol name -> SymbolInfo[]
    fileHashes,   \* FileIndex.fileHashes    : filePath -> hash
    cache,        \* sessionStorage file cache : hash of path -> content
    listeners,    \* VirtualFileSystem.listeners : the callbacks, in insertion order
    delivered,    \* the callbacks the store's last call ran, each with its event
    changeObjs,   \* the Change objects allocated so far, by allocation number
    changes,      \* ChangeTracker.changes   : filePath -> Change[] (references)
    undoStack,    \* ChangeTracker.undoStack : UndoAction[] (references)
    redoStack,    \* ChangeTracker.redoStack : UndoAction[] (references)
    changeListeners, \* ChangeTracker.listeners : the callbacks, in insertion order
    changeDelivered, \* the callbacks the tracker's last call ran, each with its event
    lightning,    \* a LightningFileSystem: its lightning-fs disk and its listeners
    tasks,        \* the indexFile calls of a buildIndex that have not ended
    isProcessing, \* CodingAgent.isProcessing
    conversationHistory, \* CodingAgent.conversationHistory : message[]
    requests,     \* the processMessage calls made so far, each with its position
    toolRegistry, \* a ToolRegistry: tools (name -> tool), categories (category -> names)
    last          \* the most recent call and how it ended

storeVars   == <<files, tokenIndex, lineIndex, symbolIndex, fileHashes, cache,
                 listeners, delivered>>
trackerVars == <<changeObjs, changes, undoStack, redoStack,
                 changeListeners, changeDelivered>>
agentVars   == <<isProcessing, conversationHistory, requests, toolRegistry>>
vars        == <<files, tokenIndex, lineIndex, symbolIndex, fileHashes, cache,
                 listeners, delivered,
                 changeObjs, changes, undoStack, redoStack,
                 changeListeners, changeDelivered, lightning, tasks,
                 isProcessing, conversationHistory, requests, toolRegistry, last>>

-----------------------------------------------------------------------------
(* Bounds of the model *)

\* Change objects allocated in one behaviour (recordChange calls).
MaxChanges == 3

\* SymbolInfo entries kept under one name: reindexing appends and never
\* removes, so indexing is cut off when a list is this long.
MaxSymbols == 2

\* processMessage calls made in one behaviour.
MaxPrompts == 3

\* Callbacks registered on one object.
MaxListeners == 2

\* the largest line number a read_file call asks for
MaxLine == 4

\* the most characters a searched line has after its match
MaxPadding == 100

\* recordChange calls in the history of a session that fills the undo stack
MaxRecorded == 102

\* changes undone and not redone in such a session
MaxDiscarded == 1

\* undo() calls that have not resolved
MaxOverlap == 2

\* register calls on one ToolRegistry
MaxRegistered == 3

-----------------------------------------------------------------------------
(* Text *)

Null == <<"<null>">>

EmptyMap == [x \in {} |-> {}]

Put(f, k, v) == [x \in (DOMAIN f) \cup {k} |-> IF x = k THEN v ELSE f[x]]

Remove(f, k) == [x \in (DOMAIN f) \ {k} |-> f[x]]

Has(f, k) == k \in DOMAIN f

NL == "\n"

WordChars ==
    { "a", "b", "c", "d", "e", "f", "g", "h", "i", "j", "k", "l", "m",
      "n", "o", "p", "q", "r", "s", "t", "u", "v", "w", "x", "y", "z",
      "F", "_" }

SpaceChars == { " ", "\n", "\t" }

IsWord(c) == c \in WordChars

IsSpace(c) == c \in SpaceChars

\* String.prototype.toLowerCase on one character of the model's alphabet
Lower(c) == IF c = "F" THEN "f" ELSE c

CharCode(c) ==
    CASE c = "a" -> 97
      [] c = "b" -> 98
      [] c = "c" -> 99
      [] c = "d" -> 100
      [] c = "e" -> 101
      [] c = "f" -> 102
      [] c = "g" -> 103
      [] c = "h" -> 104
      [] c = "i" -> 105
      [] c = "j" -> 106
      [] c = "k" -> 107
      [] c = "l" -> 108
      [] c = "m" -> 109
      [] c = "n" -> 110
      [] c = "o" -> 111
      [] c = "p" -> 112
      [] c = "q" -> 113
      [] c = "r" -> 114
      [] c = "s" -> 115
      [] c = "t" -> 116
      [] c = "u" -> 117
      [] c = "v" -> 118
      [] c = "w" -> 119
      [] c = "x" -> 120
      [] c = "y" -> 121
      [] c = "z" -> 122
      [] c = "F" -> 70
      [] c = "_" -> 95
      [] c = " " -> 32
      [] c = "\n" -> 10
      [] c = "\t" -> 9
      [] c = "(" -> 40
      [] c = ")" -> 41
      [] c = "{" -> 123
      [] c = "}" -> 125
      [] c = "$" -> 36
      [] c = "&" -> 38
      [] c = "." -> 46
      [] c = "/" -> 47
      [] c = "\\" -> 92

\* JavaScript truthiness of a string-or-null value
Truthy(content) == content # Null /\ content # <<>>

Min(S) == CHOOSE x \in S : \A y \in S : x <= y

\* pat occurs in s at the 1-based position i
IsAt(s, pat, i) ==
    /\ i + Len(pat) - 1 <= Len(s)
    /\ \A j \in 1..Len(pat) : s[i + j - 1] = pat[j]

\* String.prototype.indexOf(pat, from0): 0-based, -1 when absent
IndexOfFrom(s, pat, from0) ==
    LET hits == { i \in (from0 + 1)..(Len(s) + 1) : IsAt(s, pat, i) }
    IN  IF hits = {} THEN -1 ELSE Min(hits) - 1

IndexOf(s, pat) == IndexOfFrom(s, pat, 0)

Includes(s, pat) == IndexOf(s, pat) # -1

\* String.prototype.split on one separator character
RECURSIVE Split(_, _)
Split(s, sep) ==
    LET hits == { i \in 1..Len(s) : s[i] = sep }
    IN  IF hits = {} THEN << s >>
        ELSE LET k == Min(hits)
             IN  << SubSeq(s, 1, k - 1) >> \o Split(SubSeq(s, k + 1, Len(s)), sep)

\* the last element of split(sep)
LastPart(s, sep) == LET parts == Split(s, sep) IN parts[Len(parts)]

\* String.prototype.trim
RECURSIVE Trim(_)
Trim(s) ==
    IF s = <<>> THEN s
    ELSE IF IsSpace(s[1]) THEN Trim(Tail(s))
    ELSE IF IsSpace(s[Len(s)]) THEN Trim(SubSeq(s, 1, Len(s) - 1))
    ELSE s

\* split(/\s+/), dropping the empty strings (the callers filter them out)
RECURSIVE Words(_)
Words(s) ==
    IF s = <<>> THEN <<>>
    ELSE IF IsSpace(s[1]) THEN Words(Tail(s))
    ELSE LET stops == { i \in 1..Len(s) : IsSpace(s[i]) }
             k     == IF stops = {} THEN Len(s) + 1 ELSE Min(stops)
         IN  << SubSeq(s, 1, k - 1) >> \o Words(SubSeq(s, k, Len(s)))

SelectSeqBy(s, Test(_)) == SelectSeq(s, Test)

-----------------------------------------------------------------------------
(* Utils *)

\* Utils.normalizePath: backslashes become slashes, runs of slashes collapse
RECURSIVE CollapseSlashes(_)
CollapseSlashes(s) ==
    IF Len(s) < 2 THEN s
    ELSE IF s[1] = "/" /\ s[2] = "/" THEN CollapseSlashes(Tail(s))
    ELSE << s[1] >> \o CollapseSlashes(Tail(s))

normalizePath(path) ==
    CollapseSlashes([i \in 1..Len(path) |-> IF path[i] = "\\" THEN "/" ELSE path[i]])

\* Utils.getFileExtension
getFileExtension(filePath) ==
    LET ext == LastPart(filePath, ".") IN [i \in 1..Len(ext) |-> Lower(ext[i])]

\* Utils.simpleHash: hash = 31*hash + code, kept to 32 bits.  The value is held
\* as two 16-bit halves while it is computed and returned as the signed 32-bit
\* integer; toString(36) of it is one-to-one and is left out.
RECURSIVE HashFold(_, _, _)
HashFold(str, hi, lo) ==
    IF str = <<>> THEN << hi, lo >>
    ELSE LET lo1 == lo * 31 + CharCode(str[1])
             hi1 == hi * 31 + (lo1 \div 65536)
         IN  HashFold(Tail(str), hi1 % 65536, lo1 % 65536)

simpleHash(str) ==
    LET h == HashFold(str, 0, 0)
    IN  IF h[1] >= 32768 THEN (h[1] - 65536) * 65536 + h[2]
        ELSE h[1] * 65536 + h[2]

-----------------------------------------------------------------------------
(* StorageManager: the session file-content cache *)

\* StorageManager.storeFileContent (the entry's expiry is the action ExpireCache)
storeFileContent(c, filePath, content) == Put(c, simpleHash(filePath), content)

\* StorageManager.getFileContent: the cached content, or null
getFileContent(c, filePath) ==
    IF Has(c, simpleHash(filePath)) THEN c[simpleHash(filePath)] ELSE Null

-----------------------------------------------------------------------------
(* FileIndex *)

stopWords ==
    {
       <<"t", "h", "e">>, <<"a", "n", "d">>, <<"o", "r">>,
       <<"b", "u", "t">>, <<"i", "n">>, <<"o", "n">>,
       <<"a", "t">>, <<"t", "o">>, <<"f", "o", "r">>,
       <<"o", "f">>, <<"w", "i", "t", "h">>, <<"b", "y">>,
       <<"f", "r", "o", "m">>, <<"u", "p">>, <<"a", "b", "o", "u", "t">>,
       <<"i", "n", "t", "o">>, <<"t", "h", "r", "o", "u", "g", "h">>, <<"d", "u", "r", "i", "n", "g">>,
       <<"b", "e", "f", "o", "r", "e">>, <<"a", "f", "t", "e", "r">>, <<"a", "b", "o", "v", "e">>,
       <<"b", "e", "l", "o", "w">>, <<"b", "e", "t", "w", "e", "e", "n">>, <<"a", "m", "o", "n", "g">>
    }

isStopWord(word) == word \in stopWords

\* FileIndex.tokenize
tokenize(text) ==
    LET lowered  == [i \in 1..Len(text) |-> Lower(text[i])]
        replaced == [i \in 1..Len(text) |->
                        IF IsWord(lowered[i]) \/ IsSpace(lowered[i])
                        THEN lowered[i] ELSE " "]
        Keep(token) == Len(token) > 2 /\ ~isStopWord(token)
    IN  SelectSeq(Words(replaced), Keep)

\* FileIndex.getIndentation: length of the leading whitespace
getIndentation(line) ==
    LET solid == { i \in 1..Len(line) : ~IsSpace(line[i]) }
    IN  IF solid = {} THEN Len(line) ELSE Min(solid) - 1

LineInfo(lineNumber, content, tokens, indentation) ==
    [lineNumber |-> lineNumber, content |-> content,
     tokens |-> tokens, indentation |-> indentation]

SymbolInfo(name, type, filePath, lineNumber, column, context) ==
    [name |-> name, type |-> type, filePath |-> filePath,
     lineNumber |-> lineNumber, column |-> column, context |-> context]

\* The first match of /(\w+)\s*\([^)]*\)/ in a line: the leftmost word that is
\* followed, after optional whitespace, by "(" with a ")" somewhere after it.
\* <<>> when the line has no match, else the captured word.
GenericCallMatch(line) ==
    LET n == Len(line)
        RunEnd(i) == Min({ k \in i..n : k = n \/ ~IsWord(line[k + 1]) })
        Paren(i)  == Min({ m \in (RunEnd(i) + 1)..(n + 1) :
                             m = n + 1 \/ ~IsSpace(line[m]) })
        Starts == { i \in 1..n :
                      /\ IsWord(line[i])
                      /\ (i = 1 \/ ~IsWord(line[i - 1]))
                      /\ Paren(i) <= n
                      /\ line[Paren(i)] = "("
                      /\ \E q \in (Paren(i) + 1)..n : line[q] = ")" }
    IN  IF Starts = {} THEN <<>>
        ELSE SubSeq(line, Min(Starts), RunEnd(Min(Starts)))

\* FileIndex.extractGenericSymbols: at most one symbol per line
RECURSIVE GenericSymbolsFrom(_, _, _)
GenericSymbolsFrom(lines, k, filePath) ==
    IF k > Len(lines) THEN <<>>
    ELSE LET line == lines[k]
             name == GenericCallMatch(line)
             here == IF name # <<>> /\ Includes(line, << "{" >>)
                     THEN << SymbolInfo(name, "function", filePath, k,
                                        IndexOf(line, name), Trim(line)) >>
                     ELSE <<>>
         IN  here \o GenericSymbolsFrom(lines, k + 1, filePath)

extractGenericSymbols(content, filePath) ==
    GenericSymbolsFrom(Split(content, NL), 1, filePath)

\* The extension families that have an extractor of their own
ownExtractor ==
    { <<"j","s">>, <<"j","s","x">>, <<"t","s">>, <<"t","s","x">>, <<"p","y">>,
      <<"j","a","v","a">>, <<"c","p","p">>, <<"c">>, <<"g","o">> }

\* FileIndex.extractSymbols: the symbols of the content, appended to the lists
\* of the symbol index.  The paths of this model all take the default branch
\* of the switch (extractGenericSymbols); the per-language extractors are not
\* modelled, so nothing is extracted for their extensions.
RECURSIVE PushSymbols(_, _)
PushSymbols(index, symbols) ==
    IF symbols = <<>> THEN index
    ELSE LET symbol == symbols[1]
             list   == IF Has(index, symbol.name) THEN index[symbol.name] ELSE <<>>
         IN  PushSymbols(Put(index, symbol.name, Append(list, symbol)), Tail(symbols))

extractSymbols(index, filePath, content) ==
    LET symbols == IF getFileExtension(filePath) \in ownExtractor THEN <<>>
                   ELSE extractGenericSymbols(content, filePath)
    IN  PushSymbols(index, symbols)

\* FileIndex.indexFile, on the world w (a record of the store variables)
indexFile(w, filePath, content) ==
    LET lines     == Split(content, NL)
        lineInfos == [k \in 1..Len(lines) |->
                         LineInfo(k, lines[k], tokenize(lines[k]),
                                  getIndentation(lines[k]))]
        tokens    == UNION { { lineInfos[k].tokens[j] :
                                 j \in 1..Len(lineInfos[k].tokens) } :
                             k \in 1..Len(lineInfos) }
    IN  [w EXCEPT
            !.tokenIndex  = @ \cup { << token, filePath >> : token \in tokens },
            !.lineIndex   = Put(@, filePath, lineInfos),
            !.symbolIndex = extractSymbols(@, filePath, content),
            !.fileHashes  = Put(@, filePath, simpleHash(content))]

\* FileIndex.indexFile up to its await: lines, tokens and symbols
\* (extractSymbols awaits nothing, so its body runs inside the call)
indexFileUntilAwait(w, filePath, content) ==
    [indexFile(w, filePath, content) EXCEPT !.fileHashes = w.fileHashes]

\* a continuation that stores the hash in the map it saw when the call
\* began (a fault, to show what interleaved continuations could lose)
indexFileAfterAwaitStale(w, filePath, content) ==
    [w EXCEPT !.fileHashes = Put(EmptyMap, filePath, simpleHash(content))]

\* FileIndex.indexFile after its await: the hash of the file
indexFileAfterAwait(w, filePath, content) ==
    [w EXCEPT !.fileHashes = Put(@, filePath, simpleHash(content))]

\* FileIndex.clear
clearIndex(w) ==
    [w EXCEPT !.tokenIndex = {}, !.lineIndex = EmptyMap,
              !.symbolIndex = EmptyMap, !.fileHashes = EmptyMap]

\* the loop of buildIndex: indexFile is called for the files in the order
\* of the Map, and each call runs up to its await
RECURSIVE StartIndexing(_, _)
StartIndexing(w, order) ==
    IF order = <<>> THEN w
    ELSE StartIndexing(indexFileUntilAwait(w, order[1], w.files[order[1]].content),
                       Tail(order))

\* FileIndex.getSymbols: the symbols recorded for a file (sorting left out:
\* the result is used as a collection)
RECURSIVE SymbolsIn(_, _, _)
SymbolsIn(index, names, filePath) ==
    IF names = {} THEN <<>>
    ELSE LET name == CHOOSE x \in names : TRUE
             OfFile(s) == s.filePath = filePath
         IN  SelectSeq(index[name], OfFile)
                 \o SymbolsIn(index, names \ {name}, filePath)

getSymbols(w, filePath) == SymbolsIn(w.symbolIndex, DOMAIN w.symbolIndex, filePath)

MatchedLine(lineNumber, content, matchStart, matchEnd) ==
    [lineNumber |-> lineNumber, content |-> content,
     matchStart |-> matchStart, matchEnd |-> matchEnd]

\* FileIndex.searchContent: the files found with their matched lines, as a
\* function from file path to MatchedLine[] (the scores and the order of the
\* result list are not part of this operator)
searchContent(w, query, caseSensitive) ==
    LET Fold(text) == IF caseSensitive THEN text
                      ELSE [i \in 1..Len(text) |-> Lower(text[i])]
        queryTokens == tokenize(query)
        searchQuery == Fold(query)
        candidateFiles == { pair[2] : pair \in
                              { x \in w.tokenIndex :
                                  \E j \in 1..Len(queryTokens) : x[1] = queryTokens[j] } }
        lines(filePath) == IF Has(w.lineIndex, filePath)
                           THEN w.lineIndex[filePath] ELSE <<>>
        Hit(lineInfo) == IndexOf(Fold(lineInfo.content), searchQuery) # -1
        matched(filePath) ==
            LET hits == SelectSeq(lines(filePath), Hit)
            IN  [k \in 1..Len(hits) |->
                    MatchedLine(hits[k].lineNumber, hits[k].content,
                                IndexOf(Fold(hits[k].content), searchQuery),
                                IndexOf(Fold(hits[k].content), searchQuery) + Len(query))]
    IN  [filePath \in { f \in candidateFiles : matched(f) # <<>> } |-> matched(filePath)]

-----------------------------------------------------------------------------
(* VirtualFileSystem *)

FileEntry(path, content, type, size) ==
    [path |-> path, content |-> content, type |-> type, size |-> size]

\* the store as the set of its paths with the content of each
StoreView(fs) == [path \in DOMAIN fs |-> fs[path].content]

\* what a lookup of a missing path gives (undefined)
NoFile == [path |-> <<>>, content |-> Null, type |-> "undefined", size |-> 0]

\* The store at the start of a call.  delivered collects the callbacks the
\* call runs; uncaught says whether an exception of a callback left
\* notifyListeners.
World == [files |-> files, tokenIndex |-> tokenIndex, lineIndex |-> lineIndex,
          symbolIndex |-> symbolIndex, fileHashes |-> fileHashes, cache |-> cache,
          listeners |-> listeners, delivered |-> <<>>, uncaught |-> FALSE]

\* one run of a callback: callback(event, data)
Delivery(listener, event, data) == [listener |-> listener, event |-> event, data |-> data]

\* the index of the first callback that throws, or 0
FirstThrowing(callbacks) ==
    IF \E i \in 1..Len(callbacks) : callbacks[i] = "throws"
    THEN CHOOSE i \in 1..Len(callbacks) :
             /\ callbacks[i] = "throws"
             /\ \A j \in 1..(i - 1) : callbacks[j] # "throws"
    ELSE 0

\* a notifyListeners without the try/catch around the callback (a fault, to
\* show what the isolation of the subscribers rules out)
notifyListenersWithoutCatch(o, event, data) ==
    LET stop == FirstThrowing(o.listeners)
        ran  == IF stop = 0 THEN Len(o.listeners) ELSE stop
    IN  [o EXCEPT !.delivered = @ \o [i \in 1..ran |-> Delivery(i, event, data)],
                  !.uncaught  = @ \/ stop # 0]

\* notifyListeners of VirtualFileSystem and of ChangeTracker (the same
\* body): every callback is run; what a callback throws is caught and logged
notifyListeners(o, event, data) ==
    [o EXCEPT !.delivered =
                  @ \o [i \in 1..Len(o.listeners) |-> Delivery(i, event, data)]]

\* the data of the store's events
FileEvent(path, type, size, oldContent, newContent) ==
    [path |-> path, type |-> type, size |-> size,
     oldContent |-> oldContent, newContent |-> newContent]

\* VirtualFileSystem.addFile (size and lastModified left to their defaults)
addFile(w, path, content, type) ==
    LET normalizedPath == normalizePath(path)
        fileSize  == IF Truthy(content) THEN Len(content) ELSE 0
        fileEntry == FileEntry(normalizedPath, content, type, fileSize)
        stored    == [w EXCEPT !.files = Put(@, normalizedPath, fileEntry)]
        indexed   == IF type = "file" /\ Truthy(content)
                     THEN indexFile(stored, normalizedPath, content)
                     ELSE stored
    IN  notifyListeners(indexed, "file_added",
                        FileEvent(normalizedPath, type, fileSize, Null, Null))

\* VirtualFileSystem.getFile: the entry (NoFile when missing) and the world,
\* in which the entry's content has been overwritten by the cached content
\* when there is one and it differs
getFile(w, filePath) ==
    LET normalizedPath == normalizePath(filePath)
    IN  IF ~Has(w.files, normalizedPath) THEN [w |-> w, file |-> NoFile]
        ELSE LET file          == w.files[normalizedPath]
                 cachedContent == getFileContent(w.cache, normalizedPath)
                 seen == IF Truthy(cachedContent) /\ file.content # cachedContent
                         THEN [file EXCEPT !.content = cachedContent]
                         ELSE file
             IN  [w    |-> [w EXCEPT !.files = Put(@, normalizedPath, seen)],
                  file |-> seen]

\* VirtualFileSystem.updateFile
updateFile(w, filePath, newContent) ==
    LET normalizedPath == normalizePath(filePath)
    IN  IF Has(w.files, normalizedPath)
        THEN LET existingFile == w.files[normalizedPath]
                 written == [existingFile EXCEPT !.content = newContent,
                                                 !.size = Len(newContent)]
                 stored  == [w EXCEPT !.files = Put(@, normalizedPath, written)]
                 indexed == indexFile(stored, normalizedPath, newContent)
                 cached  == [indexed EXCEPT
                                !.cache = storeFileContent(@, normalizedPath, newContent)]
             IN  notifyListeners(cached, "file_updated",
                                 FileEvent(normalizedPath, existingFile.type,
                                           Len(newContent), existingFile.content,
                                           newContent))
        ELSE addFile(w, normalizedPath, newContent, "file")

\* VirtualFileSystem.deleteFile: the world and the returned boolean
deleteFile(w, filePath) ==
    LET normalizedPath == normalizePath(filePath)
    IN  IF Has(w.files, normalizedPath)
        THEN [w |-> notifyListeners([w EXCEPT !.files = Remove(@, normalizedPath)],
                                    "file_deleted",
                                    FileEvent(normalizedPath,
                                              w.files[normalizedPath].type,
                                              w.files[normalizedPath].size,
                                              Null, Null)),
              ok |-> TRUE]
        ELSE [w |-> w, ok |-> FALSE]

\* the world becomes the next state of the store variables
SetWorld(w) ==
    /\ files'       = w.files
    /\ tokenIndex'  = w.tokenIndex
    /\ lineIndex'   = w.lineIndex
    /\ symbolIndex' = w.symbolIndex
    /\ fileHashes'  = w.fileHashes
    /\ cache'       = w.cache
    /\ listeners'   = w.listeners
    /\ delivered'   = w.delivered

-----------------------------------------------------------------------------
(* ChangeTracker *)

maxHistorySize == 100

\* class Change.  The id (time and random digits) and the timestamp are the
\* allocation number of the object: distinct and increasing.
Change(type, filePath, oldContent, newContent, number) ==
    [type |-> type, filePath |-> filePath, oldContent |-> oldContent,
     newContent |-> newContent, timestamp |-> number, id |-> number]

\* class UndoAction: the stack entry holds a reference to the Change
UndoAction(type, change) == [type |-> type, change |-> change]

\* The tracker at the start of a call, with delivered and uncaught as in World
Tracker == [changeObjs |-> changeObjs, changes |-> changes,
            undoStack |-> undoStack, redoStack |-> redoStack,
            listeners |-> changeListeners, delivered |-> <<>>, uncaught |-> FALSE]

SetTracker(t) ==
    /\ changeObjs' = t.changeObjs
    /\ changes'    = t.changes
    /\ undoStack'  = t.undoStack
    /\ redoStack'  = t.redoStack
    /\ changeListeners' = t.listeners
    /\ changeDelivered' = t.delivered

\* a recordChange that keeps the redo stack (a fault, to show what the
\* redo-stack property rules out)
recordChangeKeepsRedo(t, type, filePath, oldContent, newContent) ==
    LET ref  == Len(t.changeObjs) + 1
        list == IF Has(t.changes, filePath) THEN t.changes[filePath] ELSE <<>>
    IN  notifyListeners(
            [t EXCEPT
                !.changeObjs = Append(@, Change(type, filePath, oldContent,
                                                newContent, ref)),
                !.changes    = Put(@, filePath, Append(list, ref)),
                !.undoStack  = Append(@, UndoAction("change", ref))],
            "change_recorded", ref)

\* a recordChange that never shifts the undo stack (a fault, to show what
\* the bound rules out)
recordChangeUncapped(t, type, filePath, oldContent, newContent) ==
    LET ref    == Len(t.changeObjs) + 1
        change == Change(type, filePath, oldContent, newContent, ref)
        list   == IF Has(t.changes, filePath) THEN t.changes[filePath] ELSE <<>>
        pushed == Append(t.undoStack, UndoAction("change", ref))
    IN  notifyListeners(
            [t EXCEPT
                !.changeObjs = Append(@, change),
                !.changes    = Put(@, filePath, Append(list, ref)),
                !.undoStack  = pushed,
                !.redoStack  = <<>>],
            "change_recorded", ref)

\* new Change(type, filePath, oldContent, newContent) followed by
\* ChangeTracker.recordChange(change)
recordChange(t, type, filePath, oldContent, newContent) ==
    LET ref    == Len(t.changeObjs) + 1
        change == Change(type, filePath, oldContent, newContent, ref)
        list   == IF Has(t.changes, filePath) THEN t.changes[filePath] ELSE <<>>
        pushed == Append(t.undoStack, UndoAction("change", ref))
    IN  notifyListeners(
            [t EXCEPT
                !.changeObjs = Append(@, change),
                !.changes    = Put(@, filePath, Append(list, ref)),
                !.undoStack  = IF Len(pushed) > maxHistorySize
                               THEN Tail(pushed) ELSE pushed,
                !.redoStack  = <<>>],
            "change_recorded", ref)

\* how a revert or an apply ended: the world, and whether it threw
Done(w) == [w |-> w, threw |-> FALSE]

Thrown(w) == [w |-> w, threw |-> TRUE]

\* Utils.normalizePath(path) inside the store call: path.replace is a
\* TypeError when the path is null
PathThrows(path) == path = Null

\* ChangeTracker.revertCreate.  deleteFile is not awaited: when it rejects,
\* revertCreate still resolves.
revertCreate(w, change) ==
    IF PathThrows(change.filePath) THEN Done(w)
    ELSE Done(deleteFile(w, change.filePath).w)

\* ChangeTracker.revertEdit
revertEdit(w, change) ==
    IF change.oldContent # Null
    THEN IF PathThrows(change.filePath) THEN Thrown(w)
         ELSE Done(updateFile(w, change.filePath, change.oldContent))
    ELSE Done(w)

\* ChangeTracker.revertDelete
revertDelete(w, change) ==
    IF change.oldContent # Null
    THEN IF PathThrows(change.filePath) THEN Thrown(w)
         ELSE Done(addFile(w, change.filePath, change.oldContent, "file"))
    ELSE Done(w)

\* an applyCreate that recreates the file empty (a fault, to show what the
\* inverse law rules out)
applyCreateEmpty(w, change) ==
    Done(addFile(w, change.filePath, <<>>, "file"))

\* ChangeTracker.applyCreate
applyCreate(w, change) ==
    IF change.newContent # Null
    THEN IF PathThrows(change.filePath) THEN Thrown(w)
         ELSE Done(addFile(w, change.filePath, change.newContent, "file"))
    ELSE Done(w)

\* ChangeTracker.applyEdit
applyEdit(w, change) ==
    IF change.newContent # Null
    THEN IF PathThrows(change.filePath) THEN Thrown(w)
         ELSE Done(updateFile(w, change.filePath, change.newContent))
    ELSE Done(w)

\* an applyDelete that leaves the file (a fault, to show what the redo
\* property rules out)
applyDeleteKeeps(w, change) == Done(w)

\* ChangeTracker.applyDelete.  deleteFile is not awaited.
applyDelete(w, change) ==
    IF PathThrows(change.filePath) THEN Done(w)
    ELSE Done(deleteFile(w, change.filePath).w)

\* ChangeTracker.revertChange
revertChange(w, change) ==
    CASE change.type = "create" -> revertCreate(w, change)
      [] change.type = "edit"   -> revertEdit(w, change)
      [] change.type = "delete" -> revertDelete(w, change)
      [] OTHER                  -> Thrown(w)

\* ChangeTracker.applyChange
applyChange(w, change) ==
    CASE change.type = "create" -> applyCreate(w, change)
      [] change.type = "edit"   -> applyEdit(w, change)
      [] change.type = "delete" -> applyDelete(w, change)
      [] OTHER                  -> Thrown(w)

Front(s) == SubSeq(s, 1, Len(s) - 1)

Top(s) == s[Len(s)]

\* ChangeTracker.undo, awaited: the world, the tracker and how the call
\* ended ("false", "true" or "threw")
undo(w, t) ==
    IF Len(t.undoStack) = 0 THEN [w |-> w, t |-> t, ret |-> "false"]
    ELSE LET action == Top(t.undoStack)
             popped == [t EXCEPT !.undoStack = Front(@)]
         IN  CHOOSE out \in
                 { IF r.threw
                   THEN [w |-> r.w,
                         t |-> [popped EXCEPT !.undoStack = Append(@, action)],
                         ret |-> "threw"]
                   ELSE [w |-> r.w,
                         t |-> notifyListeners(
                                   [popped EXCEPT !.redoStack = Append(@, action)],
                                   "change_undone", action.change),
                         ret |-> "true"]
                   : r \in { revertChange(w, t.changeObjs[action.change]) } } : TRUE

\* a redo that drops the entry when applying it throws (a fault, to show what
\* the rollback property rules out)
redoDropsFailed(w, t) ==
    IF Len(t.redoStack) = 0 THEN [w |-> w, t |-> t, ret |-> "false"]
    ELSE LET action == Top(t.redoStack)
             popped == [t EXCEPT !.redoStack = Front(@)]
         IN  CHOOSE out \in
                 { IF r.threw
                   THEN [w |-> r.w, t |-> popped, ret |-> "threw"]
                   ELSE [w |-> r.w,
                         t |-> notifyListeners(
                                   [popped EXCEPT !.undoStack = Append(@, action)],
                                   "change_redone", action.change),
                         ret |-> "true"]
                   : r \in { applyChange(w, t.changeObjs[action.change]) } } : TRUE

\* a redo that treats the change it applies as a new one: the redo stack is
\* cleared as recordChange clears it (a fault, to show what the frame of
\* redo rules out)
redoClearsRest(w, t) ==
    IF Len(t.redoStack) = 0 THEN [w |-> w, t |-> t, ret |-> "false"]
    ELSE LET action == Top(t.redoStack)
             popped == [t EXCEPT !.redoStack = Front(@)]
         IN  CHOOSE out \in
                 { IF r.threw
                   THEN [w |-> r.w,
                         t |-> [popped EXCEPT !.redoStack = Append(@, action)],
                         ret |-> "threw"]
                   ELSE [w |-> r.w,
                         t |-> notifyListeners(
                                   [popped EXCEPT !.undoStack = Append(@, action),
                                                  !.redoStack = <<>>],
                                   "change_redone", action.change),
                         ret |-> "true"]
                   : r \in { applyChange(w, t.changeObjs[action.change]) } } : TRUE

\* ChangeTracker.redo, awaited
redo(w, t) ==
    IF Len(t.redoStack) = 0 THEN [w |-> w, t |-> t, ret |-> "false"]
    ELSE LET action == Top(t.redoStack)
             popped == [t EXCEPT !.redoStack = Front(@)]
         IN  CHOOSE out \in
                 { IF r.threw
                   THEN [w |-> r.w,
                         t |-> [popped EXCEPT !.redoStack = Append(@, action)],
                         ret |-> "threw"]
                   ELSE [w |-> r.w,
                         t |-> notifyListeners(
                                   [popped EXCEPT !.undoStack = Append(@, action)],
                                   "change_redone", action.change),
                         ret |-> "true"]
                   : r \in { applyChange(w, t.changeObjs[action.change]) } } : TRUE


-----------------------------------------------------------------------------
(* The ledger as a whole: listing, export and import, clearing, compression *)

\* [...refs].sort by timestamp, ascending when up and descending otherwise.
\* Array.prototype.sort is stable: of two changes with one timestamp the one
\* that came first stays first.
RECURSIVE SortByTimestamp(_, _, _)
SortByTimestamp(objs, refs, up) ==
    IF refs = <<>> THEN <<>>
    ELSE LET Before(i, j) == IF up THEN objs[refs[i]].timestamp < objs[refs[j]].timestamp
                             ELSE objs[refs[i]].timestamp > objs[refs[j]].timestamp
             first == Min({ i \in 1..Len(refs) :
                              \A j \in 1..Len(refs) : ~Before(j, i) })
         IN  << refs[first] >>
                 \o SortByTimestamp(objs,
                                    SubSeq(refs, 1, first - 1)
                                        \o SubSeq(refs, first + 1, Len(refs)),
                                    up)

\* the lists of this.changes.values(), one after another
RECURSIVE AllChanges(_, _)
AllChanges(lists, paths) ==
    IF paths = {} THEN <<>>
    ELSE LET path == CHOOSE p \in paths : TRUE
         IN  lists[path] \o AllChanges(lists, paths \ {path})

\* ChangeTracker.getChanges(): every change, newest first
getChanges(t) ==
    SortByTimestamp(t.changeObjs, AllChanges(t.changes, DOMAIN t.changes), FALSE)

\* ChangeTracker.exportChanges(): a plain object per change (the summary
\* and the export time are left out).  The timestamp is written by
\* toISOString and read back by new Date: both keep the instant to the
\* millisecond, which is all a Date holds.
exportChanges(t) ==
    LET allChanges == getChanges(t)
    IN  [isArray |-> TRUE,
         changes |->
            [i \in 1..Len(allChanges) |->
                [id          |-> t.changeObjs[allChanges[i]].id,
                 type        |-> t.changeObjs[allChanges[i]].type,
                 filePath    |-> t.changeObjs[allChanges[i]].filePath,
                 oldContent  |-> t.changeObjs[allChanges[i]].oldContent,
                 newContent  |-> t.changeObjs[allChanges[i]].newContent,
                 timestamp   |-> t.changeObjs[allChanges[i]].timestamp]]]

\* ChangeTracker.clear
clear(t) ==
    notifyListeners([t EXCEPT !.changes = EmptyMap, !.undoStack = <<>>,
                              !.redoStack = <<>>],
                    "changes_cleared", Null)

\* the forEach of importChanges: a new Change per entry, with the id of the
\* entry, pushed on the list of its file
RECURSIVE ImportLoop(_, _)
ImportLoop(t, data) ==
    IF data = <<>> THEN t
    ELSE LET changeData == data[1]
             ref    == Len(t.changeObjs) + 1
             change == [Change(changeData.type, changeData.filePath,
                               changeData.oldContent, changeData.newContent,
                               changeData.timestamp)
                           EXCEPT !.id = changeData.id]
             list   == IF Has(t.changes, change.filePath)
                       THEN t.changes[change.filePath] ELSE <<>>
         IN  ImportLoop([t EXCEPT !.changeObjs = Append(@, change),
                                  !.changes = Put(@, change.filePath,
                                                  Append(list, ref))],
                        Tail(data))

\* an importChanges that does not clear first (a fault, to show what the
\* round trip rules out)
importChangesWithoutClear(t, data) ==
    IF ~data.isArray THEN [t |-> t, threw |-> TRUE]
    ELSE [t |-> notifyListeners(ImportLoop(t, data.changes),
                                "changes_imported", Len(data.changes)),
          threw |-> FALSE]

\* an importChanges that clears the ledger before it looks at the data (a
\* fault, to show what the rejected import must leave alone)
importChangesClearsFirst(t, data) ==
    IF ~data.isArray THEN [t |-> clear(t), threw |-> TRUE]
    ELSE [t |-> notifyListeners(ImportLoop(clear(t), data.changes),
                                "changes_imported", Len(data.changes)),
          threw |-> FALSE]

\* ChangeTracker.importChanges(data); data.isArray tells whether
\* data.changes is there and is an array.  The tracker, and whether the
\* call threw
importChanges(t, data) ==
    IF ~data.isArray THEN [t |-> t, threw |-> TRUE]
    ELSE [t |-> notifyListeners(ImportLoop(clear(t), data.changes),
                                "changes_imported", Len(data.changes)),
          threw |-> FALSE]

\* ChangeTracker.clearFile
clearFile(t, filePath) ==
    LET Others(stack) == SelectSeq(stack,
                             LAMBDA action :
                                 t.changeObjs[action.change].filePath # filePath)
        cleared == [t EXCEPT !.changes = Remove(@, filePath),
                             !.undoStack = Others(@),
                             !.redoStack = Others(@)]
    IN  IF Has(t.changes, filePath)
        THEN notifyListeners(cleared, "file_changes_cleared", filePath)
        ELSE cleared

\* a compression that keeps the later edit of two in place of the earlier
\* one (a fault, to show what keeping the first old content rules out)
RECURSIVE CompressLoopKeepsLater(_, _, _, _)
CompressLoopKeepsLater(objs, sortedChanges, compressed, removedCount) ==
    IF sortedChanges = <<>>
    THEN [objs |-> objs, compressed |-> compressed, removedCount |-> removedCount]
    ELSE LET ref    == sortedChanges[1]
             change == objs[ref]
             rest   == Tail(sortedChanges)
         IN  IF change.type = "edit" /\ compressed # <<>>
                    /\ objs[Top(compressed)].type = "edit"
             THEN CompressLoopKeepsLater(objs, rest,
                                         Append(Front(compressed), ref),
                                         removedCount + 1)
             ELSE CompressLoopKeepsLater(objs, rest, Append(compressed, ref),
                                         removedCount)

\* the inner loop of compressHistory over the sorted changes of one file:
\* the heap of Change objects, the compressed list and the count
RECURSIVE CompressLoop(_, _, _, _)
CompressLoop(objs, sortedChanges, compressed, removedCount) ==
    IF sortedChanges = <<>>
    THEN [objs |-> objs, compressed |-> compressed, removedCount |-> removedCount]
    ELSE LET ref    == sortedChanges[1]
             change == objs[ref]
             rest   == Tail(sortedChanges)
         IN  IF change.type = "create" \/ change.type = "delete"
             THEN CompressLoop(objs, rest, Append(compressed, ref), removedCount)
             ELSE IF change.type = "edit"
             THEN IF compressed # <<>> /\ objs[Top(compressed)].type = "edit"
                  THEN CompressLoop(
                           [objs EXCEPT
                               ![Top(compressed)].newContent = change.newContent,
                               ![Top(compressed)].timestamp  = change.timestamp],
                           rest, compressed, removedCount + 1)
                  ELSE CompressLoop(objs, rest, Append(compressed, ref),
                                    removedCount)
             ELSE CompressLoop(objs, rest, compressed, removedCount)

\* The outer loop of compressHistory over the entries of this.changes
RECURSIVE CompressFiles(_, _, _)
CompressFiles(t, paths, removedCount) ==
    IF paths = {} THEN [t |-> t, removedCount |-> removedCount]
    ELSE LET filePath == CHOOSE p \in paths : TRUE
             list     == t.changes[filePath]
             r        == CompressLoop(t.changeObjs,
                                      SortByTimestamp(t.changeObjs, list, TRUE),
                                      <<>>, removedCount)
         IN  IF Len(list) <= 1
             THEN CompressFiles(t, paths \ {filePath}, removedCount)
             ELSE CompressFiles([t EXCEPT !.changeObjs = r.objs,
                                          !.changes = Put(@, filePath, r.compressed)],
                                paths \ {filePath}, r.removedCount)

\* ChangeTracker.compressHistory: the tracker and the returned count
compressHistory(t) ==
    LET r == CompressFiles(t, DOMAIN t.changes, 0)
    IN  IF r.removedCount > 0
        THEN [r EXCEPT !.t = notifyListeners(@, "history_compressed", r.removedCount)]
        ELSE r
-----------------------------------------------------------------------------
(* File tools.  Each gives the world, the tracker, and whether it returned *)
(* (ok) or threw.                                                          *)

Outcome(w, t, ok) == [w |-> w, t |-> t, ok |-> ok]

\* the value a const is bound to: the one element of a singleton
The(S) == CHOOSE x \in S : TRUE

\* WriteFileTool.execute
writeFile(w, t, file_path, content) ==
    The({ LET existingFile == got.file
              exists       == existingFile # NoFile
              oldContent   == IF exists THEN existingFile.content ELSE Null
              changeType   == IF exists THEN "edit" ELSE "create"
          IN  Outcome(updateFile(got.w, file_path, content),
                      recordChange(t, changeType, file_path, oldContent, content),
                      TRUE)
          : got \in { getFile(w, file_path) } })

\* the matches of new RegExp(escapeRegex(pat), 'g') in s: leftmost, not
\* overlapping (pat is not empty)
RECURSIVE CountMatches(_, _)
CountMatches(s, pat) ==
    LET at == IndexOf(s, pat)
    IN  IF at = -1 THEN 0
        ELSE 1 + CountMatches(SubSeq(s, at + Len(pat) + 1, Len(s)), pat)

\* The replacement text String.prototype.replace builds from a replacement
\* string: "$$" stands for "$" and "$&" for the matched text.  (The patterns
\* with a backquote, a quote or a digit need characters outside the model's
\* alphabet.)
RECURSIVE Expand(_, _)
Expand(replacement, matched) ==
    IF replacement = <<>> THEN <<>>
    ELSE IF Len(replacement) >= 2 /\ replacement[1] = "$" /\ replacement[2] = "$"
         THEN << "$" >> \o Expand(SubSeq(replacement, 3, Len(replacement)), matched)
    ELSE IF Len(replacement) >= 2 /\ replacement[1] = "$" /\ replacement[2] = "&"
         THEN matched \o Expand(SubSeq(replacement, 3, Len(replacement)), matched)
    ELSE << replacement[1] >> \o Expand(Tail(replacement), matched)

\* originalContent.replace(old_content, new_content): the first occurrence
ReplaceFirst(s, pat, replacement) ==
    LET at == IndexOf(s, pat)
    IN  IF at = -1 THEN s
        ELSE SubSeq(s, 1, at) \o Expand(replacement, pat)
                 \o SubSeq(s, at + Len(pat) + 1, Len(s))

\* originalContent.replace(new RegExp(escapeRegex(old_content), 'g'), new_content)
RECURSIVE ReplaceEvery(_, _, _)
ReplaceEvery(s, pat, replacement) ==
    LET at == IndexOf(s, pat)
    IN  IF at = -1 THEN s
        ELSE SubSeq(s, 1, at) \o Expand(replacement, pat)
                 \o ReplaceEvery(SubSeq(s, at + Len(pat) + 1, Len(s)), pat, replacement)

\* EditFileTool.execute
editFile(w, t, file_path, old_content, new_content, replace_all) ==
    The({ LET file == got.file
          IN  IF file = NoFile THEN Outcome(got.w, t, FALSE)
              ELSE IF file.type = "directory" THEN Outcome(got.w, t, FALSE)
              ELSE LET originalContent == file.content
                   IN  IF ~Includes(originalContent, old_content)
                       THEN Outcome(got.w, t, FALSE)
                       ELSE IF ~replace_all
                               /\ CountMatches(originalContent, old_content) > 1
                       THEN Outcome(got.w, t, FALSE)
                       ELSE The({ Outcome(updateFile(got.w, file_path, newFileContent),
                                          recordChange(t, "edit", file_path,
                                                       originalContent, newFileContent),
                                          TRUE)
                                  : newFileContent \in
                                      { IF replace_all
                                        THEN ReplaceEvery(originalContent, old_content,
                                                          new_content)
                                        ELSE ReplaceFirst(originalContent, old_content,
                                                          new_content) } })
          : got \in { getFile(w, file_path) } })

\* CreateFileTool.getTemplateContent for file_type 'text' (the default branch)
getTemplateContent(filePath, fileType) == <<>>

\* CreateFileTool.execute
createFile(w, t, file_path, content, file_type) ==
    The({ IF got.file # NoFile THEN Outcome(got.w, t, FALSE)
          ELSE LET finalContent == IF ~Truthy(content)
                                   THEN getTemplateContent(file_path, file_type)
                                   ELSE content
               IN  Outcome(addFile(got.w, file_path, finalContent, "file"),
                           recordChange(t, "create", file_path, Null, finalContent),
                           TRUE)
          : got \in { getFile(w, file_path) } })

\* DeleteFileTool.execute
deleteFileTool(w, t, file_path, confirm) ==
    IF ~confirm THEN Outcome(w, t, FALSE)
    ELSE The({ LET file == got.file
               IN  IF file = NoFile THEN Outcome(got.w, t, FALSE)
                   ELSE IF file.type = "directory" THEN Outcome(got.w, t, FALSE)
                   ELSE LET deleted == deleteFile(got.w, file_path)
                        IN  IF ~deleted.ok THEN Outcome(deleted.w, t, FALSE)
                            ELSE Outcome(deleted.w,
                                         recordChange(t, "delete", file_path,
                                                      file.content, Null),
                                         TRUE)
               : got \in { getFile(w, file_path) } })


\* an optional number argument: a one-element list when it is supplied,
\* the empty list when it is undefined
Undefined == <<>>

Number(n) == << n >>

\* a || b for a number-or-undefined a: b when a is undefined or 0
OrElse(a, b) == IF a = Undefined \/ a[1] = 0 THEN b ELSE a[1]

\* Array.prototype.slice(start, end) with start >= 0: a negative end counts
\* from the end of the array
SliceRange(array, start, end) ==
    LET to == IF end < 0 THEN IF Len(array) + end < 0 THEN 0 ELSE Len(array) + end
              ELSE IF end > Len(array) THEN Len(array) ELSE end
    IN  IF start >= to THEN <<>> ELSE SubSeq(array, start + 1, to)

\* a line of the lineNumbers text: `${number}: ${line}`
NumberedLine(number, line) == [number |-> number, line |-> line]

\* ReadFileTool.execute: the world, whether it threw, and the numbered lines
\* of the result
readFile(w, file_path, start_line, end_line) ==
    The({ LET file == got.file
          IN  IF file = NoFile \/ file.type = "directory" \/ file.content = Null
              THEN [w |-> got.w, threw |-> TRUE, lines |-> <<>>]
              ELSE LET lines    == Split(file.content, NL)
                       startIdx == IF OrElse(start_line, 1) - 1 < 0 THEN 0
                                   ELSE OrElse(start_line, 1) - 1
                       endIdx   == IF OrElse(end_line, Len(lines)) > Len(lines)
                                   THEN Len(lines)
                                   ELSE OrElse(end_line, Len(lines))
                       selectedLines ==
                           IF start_line # Undefined \/ end_line # Undefined
                           THEN SliceRange(lines, startIdx, endIdx)
                           ELSE lines
                       first == IF start_line # Undefined \/ end_line # Undefined
                                THEN startIdx ELSE 0
                   IN  [w |-> got.w, threw |-> FALSE,
                        lines |-> [idx \in 1..Len(selectedLines) |->
                                      NumberedLine(first + idx, selectedLines[idx])]]
          : got \in { getFile(w, file_path) } })
-----------------------------------------------------------------------------
(* BaseTool and ToolRegistry *)

\* The values JSON.parse can give a tool call: a string, a number, a boolean,
\* null, and an object with named properties.
JsString(text) == [kind |-> "string", val |-> text, props |-> EmptyMap]

JsNumber == [kind |-> "number", val |-> << "1" >>, props |-> EmptyMap]

JsBoolean(b) == [kind |-> "boolean",
                 val |-> IF b THEN << "true" >> ELSE << "false" >>,
                 props |-> EmptyMap]

JsNull == [kind |-> "null", val |-> <<>>, props |-> EmptyMap]

JsObject(props) == [kind |-> "object", val |-> <<>>, props |-> props]

\* class ToolParameter (enum is Null, or the list of the allowed texts)
ToolParameter(name, type, required, enum) ==
    [name |-> name, type |-> type, required |-> required, enum |-> enum]

\* class ToolCall
ToolCall(name, arguments) == [name |-> name, arguments |-> arguments]

\* class ToolResult
ToolResult(success, result, error) ==
    [success |-> success, result |-> result, error |-> error]

EnumText == << "t", "e", "x", "t" >>
EnumCode == << "c", "o", "d", "e" >>

\* this.parameters of the file tools, by this.name
parameters ==
    [write_file  |-> << ToolParameter("file_path", "string", TRUE, Null),
                        ToolParameter("content", "string", TRUE, Null) >>,
     edit_file   |-> << ToolParameter("file_path", "string", TRUE, Null),
                        ToolParameter("old_content", "string", TRUE, Null),
                        ToolParameter("new_content", "string", TRUE, Null),
                        ToolParameter("replace_all", "boolean", FALSE, Null) >>,
     create_file |-> << ToolParameter("file_path", "string", TRUE, Null),
                        ToolParameter("content", "string", FALSE, Null),
                        ToolParameter("file_type", "string", FALSE,
                                      << EnumText, EnumCode >>) >>,
     delete_file |-> << ToolParameter("file_path", "string", TRUE, Null),
                        ToolParameter("confirm", "boolean", TRUE, Null) >>]

\* the switch on param.type in validateArgs: TRUE when no error is pushed.
\* typeof null is 'object'; a type without a case pushes nothing.
TypeAccepts(type, value) ==
    CASE type = "string"  -> value.kind = "string"
      [] type = "number"  -> value.kind = "number"
      [] type = "boolean" -> value.kind = "boolean"
      [] type = "array"   -> value.kind = "array"
      [] type = "object"  -> value.kind = "object"
      [] OTHER            -> TRUE

\* param.enum.includes(value)
EnumIncludes(enum, value) ==
    /\ value.kind = "string"
    /\ \E i \in 1..Len(enum) : enum[i] = value.val

\* the body of the forEach of validateArgs: the errors pushed for one param
ParamErrors(param, props) ==
    ( IF param.required /\ ~Has(props, param.name)
      THEN << << "Required parameter", param.name, "is missing" >> >>
      ELSE <<>> )
    \o
    ( IF Has(props, param.name)
      THEN ( IF ~TypeAccepts(param.type, props[param.name])
             THEN << << "Parameter", param.name, "must be a", param.type >> >>
             ELSE <<>> )
           \o
           ( IF param.enum # Null /\ ~EnumIncludes(param.enum, props[param.name])
             THEN << << "Parameter", param.name, "must be one of" >> >>
             ELSE <<>> )
      ELSE <<>> )

RECURSIVE EachParamErrors(_, _)
EachParamErrors(params, props) ==
    IF params = <<>> THEN <<>>
    ELSE ParamErrors(Head(params), props) \o EachParamErrors(Tail(params), props)

\* a validateArgs that stops at the first violation (a fault, to show what
\* the aggregation property rules out)
validateArgsFailFast(params, args) ==
    IF args.kind # "object"
    THEN [threw |-> TRUE, errors |-> <<>>]
    ELSE [threw |-> FALSE,
          errors |-> SubSeq(EachParamErrors(params, args.props), 1, 1)]

\* BaseTool.validateArgs: the list of errors; `param.name in args` is a
\* TypeError when args is not an object
validateArgs(params, args) ==
    IF args.kind # "object"
    THEN [threw |-> TRUE, errors |-> <<>>]
    ELSE [threw |-> FALSE, errors |-> EachParamErrors(params, args.props)]

\* a thrown Error, by its message
Error(message) == [kind |-> "error", val |-> message, props |-> EmptyMap]

\* BaseTool.formatResult(result)
formatResult(result) == ToolResult(TRUE, result, Null)

\* BaseTool.formatError: error.message of an Error, String(error) of a string
formatError(error) == ToolResult(FALSE, Null, error.val)

\* args[name] after validation, with the default of the destructuring
\* pattern when the property is absent
TextArg(props, name, default) ==
    IF Has(props, name) THEN props[name].val ELSE default

BoolArg(props, name, default) ==
    IF Has(props, name) THEN props[name].val = << "true" >> ELSE default

\* how tool.execute(args) ended: the world, the tracker, and either the
\* returned text or the thrown Error
Ran(out, result, message) ==
    [w |-> out.w, t |-> out.t, threw |-> ~out.ok,
     value |-> IF out.ok THEN result ELSE Error(message)]

\* tool.execute(toolCall.arguments) of the tool registered under the name
toolExecute(name, w, t, props) ==
    CASE name = "write_file" ->
             Ran(writeFile(w, t, props["file_path"].val, props["content"].val),
                 << "file: " >> \o props["file_path"].val,
                 << "Failed to write file: " >>)
      [] name = "edit_file" ->
             Ran(editFile(w, t, props["file_path"].val, props["old_content"].val,
                          props["new_content"].val,
                          BoolArg(props, "replace_all", FALSE)),
                 << "Successfully edited file: " >> \o props["file_path"].val,
                 << "Failed to edit file: " >>)
      [] name = "create_file" ->
             Ran(createFile(w, t, props["file_path"].val,
                            TextArg(props, "content", <<>>),
                            TextArg(props, "file_type", EnumText)),
                 << "Created new file: " >> \o props["file_path"].val,
                 << "Failed to create file: " >>)
      [] name = "delete_file" ->
             Ran(deleteFileTool(w, t, props["file_path"].val,
                                BoolArg(props, "confirm", FALSE)),
                 << "Deleted file: " >> \o props["file_path"].val,
                 << "Failed to delete file: " >>)

\* the promise of an async function: resolved with a value, or rejected
Resolved(w, t, value) == [w |-> w, t |-> t, settled |-> "resolved", value |-> value]

Rejected(w, t, error) == [w |-> w, t |-> t, settled |-> "rejected", value |-> error]

\* the try block of ToolRegistry.execute: the value returned, or the value
\* thrown
executeTry(name, w, t, arguments) ==
    The({ IF validation.threw
          THEN [w |-> w, t |-> t, threw |-> TRUE,
                value |-> Error(<< "Cannot use 'in' operator" >>)]
          ELSE IF Len(validation.errors) > 0
          THEN [w |-> w, t |-> t, threw |-> FALSE,
                value |-> formatError(JsString(<< "Validation errors: " >>))]
          ELSE The({ IF ran.threw THEN ran
                     ELSE [ran EXCEPT !.value = formatResult(ran.value)]
                     : ran \in { toolExecute(name, w, t, arguments.props) } })
          : validation \in { validateArgs(parameters[name], arguments) } })

\* a ToolRegistry.execute without the catch block (a fault, to show what the
\* error boundary rules out)
executeWithoutCatch(w, t, toolCall) ==
    IF toolCall.name \notin DOMAIN parameters
    THEN Resolved(w, t, ToolResult(FALSE, Null, << "Unknown tool: ", toolCall.name >>))
    ELSE The({ IF tried.threw THEN Rejected(tried.w, tried.t, tried.value)
               ELSE Resolved(tried.w, tried.t, tried.value)
               : tried \in { executeTry(toolCall.name, w, t, toolCall.arguments) } })

\* ToolRegistry.execute
execute(w, t, toolCall) ==
    IF toolCall.name \notin DOMAIN parameters
    THEN Resolved(w, t, ToolResult(FALSE, Null, << "Unknown tool: ", toolCall.name >>))
    ELSE The({ IF tried.threw
               THEN Resolved(tried.w, tried.t, formatError(tried.value))
               ELSE Resolved(tried.w, tried.t, tried.value)
               : tried \in { executeTry(toolCall.name, w, t, toolCall.arguments) } })


-----------------------------------------------------------------------------
(* The ToolRegistry as a collection: register, unregister, clear, list *)

\* new ToolRegistry(): no tools, no categories
ToolRegistry == [tools |-> EmptyMap, categories |-> EmptyMap]

\* a tool object: its name and what tells two tools of one name apart;
\* isBaseTool is tool instanceof BaseTool
Tool(name, description, isBaseTool) ==
    [name |-> name, description |-> description, isBaseTool |-> isBaseTool]

\* ToolRegistry.register(tool, category)
register(r, tool, category) ==
    IF ~tool.isBaseTool THEN [r |-> r, threw |-> TRUE]
    ELSE [r |-> [tools |-> Put(r.tools, tool.name, tool),
                 categories |->
                     Put(r.categories, category,
                         Append(IF Has(r.categories, category)
                                THEN r.categories[category] ELSE <<>>,
                                tool.name))],
          threw |-> FALSE]

\* toolNames.indexOf(name), counted from 1; 0 when the name is not there
FirstIndexOf(toolNames, name) ==
    IF \E i \in 1..Len(toolNames) : toolNames[i] = name
    THEN Min({ i \in 1..Len(toolNames) : toolNames[i] = name })
    ELSE 0

\* the loop of unregister over the categories: the first occurrence of the
\* name is spliced out of each list, and a list left empty is deleted
RECURSIVE UnregisterLoop(_, _, _)
UnregisterLoop(categories, todo, name) ==
    IF todo = {} THEN categories
    ELSE LET category == CHOOSE c \in todo : TRUE
             toolNames == categories[category]
             index     == FirstIndexOf(toolNames, name)
             spliced   == SubSeq(toolNames, 1, index - 1)
                              \o SubSeq(toolNames, index + 1, Len(toolNames))
         IN  UnregisterLoop(IF index = 0 THEN categories
                            ELSE IF spliced = <<>> THEN Remove(categories, category)
                            ELSE Put(categories, category, spliced),
                            todo \ { category }, name)

\* ToolRegistry.unregister(name)
unregister(r, name) ==
    IF Has(r.tools, name)
    THEN [tools |-> Remove(r.tools, name),
          categories |-> UnregisterLoop(r.categories, DOMAIN r.categories, name)]
    ELSE r

\* ToolRegistry.clear
clearRegistry(r) == ToolRegistry

\* ToolRegistry.list: tool.name is a TypeError when a listed name has no tool
listTools(r) ==
    IF \E c \in DOMAIN r.categories :
           \E i \in 1..Len(r.categories[c]) : ~Has(r.tools, r.categories[c][i])
    THEN [threw |-> TRUE, toolList |-> EmptyMap]
    ELSE [threw |-> FALSE,
          toolList |-> [c \in DOMAIN r.categories |->
                           [i \in 1..Len(r.categories[c]) |->
                               r.tools[r.categories[c][i]].name]]]
-----------------------------------------------------------------------------
(* Scores.  A score is the exact fraction << numerator, denominator >> of the *)
(* number the source computes in floating point.                              *)

Rat(n, d) == << n, d >>

RatTimes(a, n, d) == << a[1] * n, a[2] * d >>

RatGreater(a, b) == a[1] * b[2] > b[1] * a[2]

RatAtLeast(a, b) == a[1] * b[2] >= b[1] * a[2]

Max(S) == CHOOSE x \in S : \A y \in S : x >= y

\* Array.prototype.sort((a, b) => b.score - a.score), which is stable: the
\* indices of the list in the order the sort leaves them, given the scores
RECURSIVE SortedDescending(_)
SortedDescending(scores) ==
    IF scores = <<>> THEN <<>>
    ELSE LET n      == Len(scores)
             front  == SortedDescending(SubSeq(scores, 1, n - 1))
             before == { i \in 1..Len(front) : RatAtLeast(scores[front[i]], scores[n]) }
             k      == IF before = {} THEN 0 ELSE Max(before)
         IN  SubSeq(front, 1, k) \o << n >> \o SubSeq(front, k + 1, Len(front))

\* the list with its elements in the order of the indices
Reordered(list, indices) == [i \in 1..Len(indices) |-> list[indices[i]]]

\* Array.prototype.slice(0, n)
Slice(list, n) == SubSeq(list, 1, IF n < Len(list) THEN n ELSE Len(list))

-----------------------------------------------------------------------------
(* Search over the store *)

\* Utils.getFileName
getFileName(filePath) ==
    LET name == LastPart(filePath, "/") IN IF name = <<>> THEN filePath ELSE name

\* Utils.getDirectoryPath
getDirectoryPath(filePath) ==
    LET slashes == { i \in 1..Len(filePath) : filePath[i] = "/" }
    IN  IF slashes = {} THEN <<>> ELSE SubSeq(filePath, 1, Max(slashes) - 1)

\* one row of the edit-distance matrix of Utils.calculateSimilarity, from the
\* row above it
RECURSIVE MatrixRow(_, _, _, _)
MatrixRow(above, str1, char2, j) ==
    IF j = 0 THEN << above[1] + 1 >>
    ELSE LET left == MatrixRow(above, str1, char2, j - 1)
             cell == IF char2 = str1[j] THEN above[j]
                     ELSE 1 + Min({ above[j], left[j], above[j + 1] })
         IN  Append(left, cell)

RECURSIVE Matrix(_, _, _)
Matrix(str1, str2, i) ==
    IF i = 0 THEN [j \in 1..(Len(str1) + 1) |-> j - 1]
    ELSE MatrixRow(Matrix(str1, str2, i - 1), str1, str2[i], Len(str1))

\* Utils.calculateSimilarity
calculateSimilarity(str1, str2) ==
    LET maxLen == IF Len(str1) > Len(str2) THEN Len(str1) ELSE Len(str2)
    IN  IF maxLen = 0 THEN Rat(1, 1)
        ELSE Rat(maxLen - Matrix(str1, str2, Len(str2))[Len(str1) + 1], maxLen)

LowerText(text) == [i \in 1..Len(text) |-> Lower(text[i])]

\* class FileSearchResult
FileSearchResult(filePath, content, score, matchedLines, reason) ==
    [filePath |-> filePath, content |-> content, score |-> score,
     matchedLines |-> matchedLines, reason |-> reason]

\* the sum over the matched lines in FileIndex.calculateRelevanceScore, in
\* hundredths
RECURSIVE LineScores(_, _)
LineScores(queryLower, matchedLines) ==
    IF matchedLines = <<>> THEN 0
    ELSE LET content == LowerText(Head(matchedLines).content)
             matches == CountMatches(content, queryLower)
             short   == IF Len(content) < 100 THEN 100 - Len(content) ELSE 0
             exact   == IF Includes(content, << " " >> \o queryLower \o << " " >>)
                        THEN 200 ELSE 0
         IN  100 * matches + short + exact
                 + LineScores(queryLower, Tail(matchedLines))

\* FileIndex.calculateRelevanceScore
calculateRelevanceScore(query, matchedLines) ==
    Rat(LineScores(LowerText(query), matchedLines), 100 * Len(matchedLines))

\* The results of FileIndex.searchContent in the order it returns them: the
\* candidate files in the order they entered the index, sorted by score,
\* cut at options.maxResults
searchContentResults(w, query, maxResults, order) ==
    The({ LET paths   == SelectSeq(order, LAMBDA path : Has(found, path))
              results == [i \in 1..Len(paths) |->
                            FileSearchResult(paths[i], Null,
                                             calculateRelevanceScore(query,
                                                                     found[paths[i]]),
                                             found[paths[i]], "content_match")]
          IN  Slice(Reordered(results,
                              SortedDescending([i \in 1..Len(results) |->
                                                   results[i].score])),
                    maxResults)
          : found \in { searchContent(w, query, FALSE) } })

\* uniqueResults of searchFiles: one result per path, the one with the greater
\* score, at the place of the first
RECURSIVE UniqueResults(_)
UniqueResults(results) ==
    IF results = <<>> THEN <<>>
    ELSE LET front == UniqueResults(SubSeq(results, 1, Len(results) - 1))
             result == results[Len(results)]
             same  == { i \in 1..Len(front) : front[i].filePath = result.filePath }
         IN  IF same = {} THEN Append(front, result)
             ELSE LET i == CHOOSE i \in same : TRUE
                  IN  IF RatGreater(result.score, front[i].score)
                      THEN [front EXCEPT ![i] = result]
                      ELSE front

\* VirtualFileSystem.searchFiles with includeFilenames and includeContent.
\* order is the order of insertion of the paths in this.files.  Every
\* content result is completed through getFile.
searchFiles(w, query, maxResults, order) ==
    LET queryLower == LowerText(query)
        named   == SelectSeq(order,
                             LAMBDA path : Has(w.files, path)
                                 /\ Includes(LowerText(getFileName(path)), queryLower))
        byName  == [i \in 1..Len(named) |->
                      FileSearchResult(named[i], w.files[named[i]].content,
                                       RatTimes(calculateSimilarity(
                                                    LowerText(getFileName(named[i])),
                                                    queryLower), 2, 1),
                                       <<>>, "filename_match")]
        found   == searchContentResults(w, query, maxResults, order)
        byContent == [i \in 1..Len(found) |->
                        IF getFile(w, found[i].filePath).file # NoFile
                        THEN [found[i] EXCEPT
                                !.content = getFile(w, found[i].filePath).file.content]
                        ELSE found[i]]
    IN  The({ Slice(Reordered(unique,
                              SortedDescending([i \in 1..Len(unique) |->
                                                   unique[i].score])),
                    maxResults)
              : unique \in { UniqueResults(byName \o byContent) } })

-----------------------------------------------------------------------------
(* ContextManager *)

\* class RelevantFile
RelevantFile(path, content, relevanceScore, reason, matchedLines) ==
    [path |-> path, content |-> content, relevanceScore |-> relevanceScore,
     reason |-> reason, matchedLines |-> matchedLines]

\* class UserIntent: what findRelevantFiles reads of it
UserIntent(targetFiles, keywords) == [targetFiles |-> targetFiles, keywords |-> keywords]

HasPrefix(text, prefix) ==
    Len(text) >= Len(prefix) /\ SubSeq(text, 1, Len(prefix)) = prefix

KeywordImport == << "i", "m", "p", "o", "r", "t" >>
KeywordFrom == << "f", "r", "o", "m" >>

\* The import of one line in ContextManager.extractImports, or Null.  Of the
\* five patterns, the two that need no character outside the model's alphabet:
\* /^from\s+([^\s]+)\s+import/ and /^import\s+([^\s]+)/.
LineImport(line) ==
    LET words == Words(Trim(line))
    IN  IF Len(words) >= 3 /\ words[1] = KeywordFrom /\ HasPrefix(words[3], KeywordImport)
        THEN words[2]
        ELSE IF Len(words) >= 2 /\ words[1] = KeywordImport
        THEN words[2]
        ELSE Null

\* ContextManager.extractImports
extractImports(content) ==
    LET lines == Split(content, NL)
        each  == [i \in 1..Len(lines) |-> LineImport(lines[i])]
    IN  SelectSeq(each, LAMBDA import : import # Null)

\* the elements of a list in the order they enter a Set
RECURSIVE Distinct(_)
Distinct(list) ==
    IF list = <<>> THEN <<>>
    ELSE LET front == Distinct(SubSeq(list, 1, Len(list) - 1))
         IN  IF \E i \in 1..Len(front) : front[i] = list[Len(list)]
             THEN front ELSE Append(front, list[Len(list)])

RECURSIVE Join(_, _)
Join(parts, sep) ==
    IF parts = <<>> THEN <<>>
    ELSE IF Len(parts) = 1 THEN parts[1]
    ELSE parts[1] \o << sep >> \o Join(Tail(parts), sep)

\* the loop of ContextManager.resolvePath
RECURSIVE ResolveParts(_, _)
ResolveParts(parts, resolved) ==
    IF parts = <<>> THEN resolved
    ELSE LET part == Head(parts)
         IN  IF part = << ".", "." >>
             THEN ResolveParts(Tail(parts),
                               IF resolved = <<>> THEN <<>>
                               ELSE SubSeq(resolved, 1, Len(resolved) - 1))
             ELSE IF part # << "." >> /\ part # <<>>
             THEN ResolveParts(Tail(parts), Append(resolved, part))
             ELSE ResolveParts(Tail(parts), resolved)

\* ContextManager.resolvePath
resolvePath(base, relative) ==
    Join(ResolveParts(Split(base, "/") \o Split(relative, "/"), <<>>), "/")

\* the first of the paths that is in this.fileSystem.files, or Null
RECURSIVE FirstIn(_, _)
FirstIn(fs, paths) ==
    IF paths = <<>> THEN Null
    ELSE IF Has(fs, Head(paths)) THEN Head(paths)
    ELSE FirstIn(fs, Tail(paths))

DotJs == << ".", "j", "s" >>
DotTs == << ".", "t", "s" >>
SrcDir == << "s", "r", "c", "/" >>
LibDir == << "l", "i", "b", "/" >>
IndexName == << "/", "i", "n", "d", "e", "x" >>

\* ContextManager.resolveImportPath (fromFile is Null when there is none)
resolveImportPath(w, importPath, fromFile) ==
    LET relative == HasPrefix(importPath, << ".", "/" >>)
                        \/ HasPrefix(importPath, << ".", ".", "/" >>)
        resolved == resolvePath(getDirectoryPath(fromFile), importPath)
        tried    == FirstIn(w.files,
                            << resolved, resolved \o DotJs, resolved \o DotTs,
                               resolved \o DotJs \o << "x" >>,
                               resolved \o DotTs \o << "x" >>,
                               resolved \o IndexName \o DotJs,
                               resolved \o IndexName \o DotTs >>)
        possiblePaths == << importPath, SrcDir \o importPath, LibDir \o importPath,
                            importPath \o DotJs, importPath \o DotTs,
                            SrcDir \o importPath \o DotJs,
                            SrcDir \o importPath \o DotTs >>
    IN  IF relative /\ fromFile = Null THEN Null
        ELSE IF relative /\ tried # Null THEN tried
        ELSE FirstIn(w.files, possiblePaths)

\* the second loop of findRelatedFiles
RECURSIVE RelatedLoop(_, _, _, _)
RelatedLoop(w, imports, fromFile, relatedFiles) ==
    IF imports = <<>> \/ Len(relatedFiles) >= 3 THEN relatedFiles
    ELSE LET resolvedPath == resolveImportPath(w, Head(imports), fromFile)
             file == IF resolvedPath = Null THEN NoFile
                     ELSE getFile(w, resolvedPath).file
         IN  RelatedLoop(w, Tail(imports), fromFile,
                         IF file # NoFile
                         THEN Append(relatedFiles,
                                     RelevantFile(resolvedPath, file.content,
                                                  Rat(6, 10), << "dependency" >>, <<>>))
                         ELSE relatedFiles)

RECURSIVE Concat(_)
Concat(lists) == IF lists = <<>> THEN <<>> ELSE Head(lists) \o Concat(Tail(lists))

\* ContextManager.findRelatedFiles
findRelatedFiles(w, relevantFiles) ==
    LET imports == Distinct(Concat([i \in 1..Len(relevantFiles) |->
                                       extractImports(relevantFiles[i].content)]))
        fromFile == IF relevantFiles = <<>> THEN Null ELSE relevantFiles[1].path
    IN  RelatedLoop(w, imports, fromFile, <<>>)

\* what findRelevantFiles has collected: the list and seenPaths
Collected(relevantFiles, seenPaths) ==
    [relevantFiles |-> relevantFiles, seenPaths |-> seenPaths]

\* stage 1 of findRelevantFiles: the directly mentioned files
RECURSIVE MentionedLoop(_, _, _)
MentionedLoop(w, targetFiles, got) ==
    IF targetFiles = <<>> THEN got
    ELSE LET filePath == Head(targetFiles)
             file     == getFile(w, filePath).file
         IN  MentionedLoop(w, Tail(targetFiles),
                 IF filePath \in got.seenPaths \/ file = NoFile THEN got
                 ELSE Collected(Append(got.relevantFiles,
                                       RelevantFile(filePath, file.content, Rat(1, 1),
                                                    << "directly_mentioned" >>, <<>>)),
                                got.seenPaths \cup { filePath }))

\* stage 2, the loop over the results of one keyword, left by its break
RECURSIVE ResultsLoop(_, _, _, _)
ResultsLoop(w, searchResults, maxFiles, got) ==
    IF searchResults = <<>> THEN got
    ELSE LET result == Head(searchResults)
             file   == getFile(w, result.filePath).file
         IN  IF result.filePath \in got.seenPaths
                    \/ Len(got.relevantFiles) >= maxFiles
             THEN got
             ELSE ResultsLoop(w, Tail(searchResults), maxFiles,
                      IF file = NoFile THEN got
                      ELSE Collected(Append(got.relevantFiles,
                                            RelevantFile(result.filePath, file.content,
                                                         RatTimes(result.score, 8, 10),
                                                         << "keyword_match" >>,
                                                         result.matchedLines)),
                                     got.seenPaths \cup { result.filePath }))

\* stage 2, the loop over the keywords
RECURSIVE KeywordsLoop(_, _, _, _, _)
KeywordsLoop(w, keywords, maxFiles, order, got) ==
    IF keywords = <<>> THEN got
    ELSE KeywordsLoop(w, Tail(keywords), maxFiles, order,
                      The({ ResultsLoop(w, searchResults, maxFiles, got)
                            : searchResults \in
                                { searchFiles(w, Head(keywords), maxFiles * 2, order) } }))

\* stage 3, the loop over the related files, left by its break
RECURSIVE DependenciesLoop(_, _, _)
DependenciesLoop(relatedFiles, maxFiles, got) ==
    IF relatedFiles = <<>> THEN got
    ELSE LET relatedFile == Head(relatedFiles)
         IN  IF relatedFile.path \in got.seenPaths
                    \/ Len(got.relevantFiles) >= maxFiles
             THEN got
             ELSE DependenciesLoop(Tail(relatedFiles), maxFiles,
                      Collected(Append(got.relevantFiles, relatedFile),
                                got.seenPaths \cup { relatedFile.path }))

\* ContextManager.findRelevantFiles.  The store is read through getFile;
\* order is the order of insertion of the paths in the store.
findRelevantFiles(w, intent, maxFiles, order) ==
    The({ The({ The({ Reordered(third.relevantFiles,
                                SortedDescending(
                                    [i \in 1..Len(third.relevantFiles) |->
                                        third.relevantFiles[i].relevanceScore]))
                      : third \in
                          { IF Len(second.relevantFiles) > 0
                                  /\ Len(second.relevantFiles) < maxFiles
                            THEN DependenciesLoop(
                                     findRelatedFiles(w, second.relevantFiles),
                                     maxFiles, second)
                            ELSE second } })
                : second \in
                    { IF Len(intent.keywords) > 0 /\ Len(first.relevantFiles) < maxFiles
                      THEN KeywordsLoop(w, Slice(intent.keywords, 3), maxFiles, order,
                                        first)
                      ELSE first } })
          : first \in { MentionedLoop(w, intent.targetFiles, Collected(<<>>, {})) } })

\* ContextManager: this.maxContextTokens, this.avgCharsPerToken and
\* this.maxContextChars as the constructor sets them
maxContextTokens == 8000

avgCharsPerToken == 4

maxContextChars == maxContextTokens * avgCharsPerToken

\* '\n\n... [truncated]'
TruncatedMark ==
    << "\n", "\n", ".", ".", ".", " ", "[", "t", "r", "u", "n", "c", "a", "t", "e",
       "d", "]" >>

\* the loop of trimContextToLimit, left by its break
RECURSIVE TrimLoop(_, _, _, _)
TrimLoop(relevantFiles, limit, totalChars, trimmedFiles) ==
    IF relevantFiles = <<>> THEN trimmedFiles
    ELSE LET file      == Head(relevantFiles)
             fileChars == Len(file.content)
             remainingChars == limit - totalChars
         IN  IF totalChars + fileChars <= limit
             THEN TrimLoop(Tail(relevantFiles), limit, totalChars + fileChars,
                           Append(trimmedFiles, file))
             ELSE IF remainingChars > 500
             THEN Append(trimmedFiles,
                         RelevantFile(file.path,
                                      SubSeq(file.content, 1, remainingChars - 100)
                                          \o TruncatedMark,
                                      RatTimes(file.relevanceScore, 7, 10),
                                      file.reason \o << "_partial" >>,
                                      file.matchedLines))
             ELSE trimmedFiles

\* a trimContextToLimit that returns every candidate (a fault, to show what
\* the budget rules out)
trimContextKeepsAll(relevantFiles, limit) == relevantFiles

\* ContextManager.trimContextToLimit, for a context manager whose
\* maxContextChars is limit
trimContextToLimit(relevantFiles, limit) == TrimLoop(relevantFiles, limit, 0, <<>>)

-----------------------------------------------------------------------------
(* CodingAgent *)

maxHistoryLength == 50

\* the agent's fields that processMessage reads and writes
Agent == [isProcessing |-> isProcessing, conversationHistory |-> conversationHistory]

SetAgent(agent) ==
    /\ isProcessing' = agent.isProcessing
    /\ conversationHistory' = agent.conversationHistory

\* CodingAgent.addToHistory: push, then keep the last maxHistoryLength
addToHistory(history, role, content) ==
    LET pushed == Append(history, [role |-> role, content |-> content])
    IN  IF Len(pushed) > maxHistoryLength
        THEN SubSeq(pushed, Len(pushed) - maxHistoryLength + 1, Len(pushed))
        ELSE pushed

\* a processMessage that does not look at isProcessing (a fault, to show what
\* the single-flight property rules out)
processMessageUnguarded(agent, message) ==
    [threw |-> FALSE,
     agent |-> [isProcessing |-> TRUE,
                conversationHistory |->
                    addToHistory(agent.conversationHistory, "user", message)]]

\* CodingAgent.processMessage from the call to its first await: the throw
\* before the try block, or the flag set and the user message in the history
processMessageStart(agent, message) ==
    IF agent.isProcessing
    THEN [threw |-> TRUE, agent |-> agent]
    ELSE [threw |-> FALSE,
          agent |-> [isProcessing |-> TRUE,
                     conversationHistory |->
                         addToHistory(agent.conversationHistory, "user", message)]]

\* the finally block of processMessage
processMessageFinally(agent) == [agent EXCEPT !.isProcessing = FALSE]

\* the end of the try block of processMessage: the response goes into the
\* history, the value is returned, and the finally block runs
processMessageReturn(agent, response) ==
    processMessageFinally(
        [agent EXCEPT !.conversationHistory =
                          addToHistory(agent.conversationHistory, "assistant", response)])

\* the catch block of processMessage (the listeners are told, the error is
\* thrown again), then the finally block
processMessageCatch(agent) == processMessageFinally(agent)

\* one call of processMessage: the message, the await it is at ("gatherContext",
\* "streamCompletion", "execute", "completion") or how it ended ("returned",
\* "threw", "rejected"), the tool calls still to run, and
\* toolResults.some(tr => tr.result.success) so far
Request(message, at, toolCalls, succeeded) ==
    [message |-> message, at |-> at, toolCalls |-> toolCalls, succeeded |-> succeeded]

Awaits == { "gatherContext", "streamCompletion", "execute", "completion" }

InProgress == { i \in 1..Len(requests) : requests[i].at \in Awaits }


\* CodingAgent.undo, awaited.  The agent's flag is not read.
agentUndo(w, t) ==
    IF Len(t.undoStack) > 0 THEN undo(w, t) ELSE [w |-> w, t |-> t, ret |-> "false"]

\* CodingAgent.redo, awaited.  The agent's flag is not read.
agentRedo(w, t) ==
    IF Len(t.redoStack) > 0 THEN redo(w, t) ELSE [w |-> w, t |-> t, ret |-> "false"]
-----------------------------------------------------------------------------
(* The Number arithmetic of calculateRelevanceScore: IEEE 754 binary64,
   round to nearest, ties to even.  A value is a fixed-point number with
   Places binary places, written as three limbs of LimbBits bits, most
   significant first: its value is
       (x[1] * 2^46 + x[2] * 2^23 + x[3]) / 2^62.
   Every value the score computation meets is zero or lies between 1/100
   and 128, and a binary64 value in that range has all its 53 significant
   bits within these places. *)

\* the significant bits of a binary64 value
Precision == 53

\* the bits of one limb
LimbBits == 23

\* bits after the point: 53 significant bits of a value of at least 1/512
Places == 62

\* 2^k
RECURSIVE PowerOfTwo(_)
PowerOfTwo(k) == IF k = 0 THEN 1 ELSE 2 * PowerOfTwo(k - 1)

\* the number of bits of a natural number
RECURSIVE BitLength(_)
BitLength(n) == IF n = 0 THEN 0 ELSE 1 + BitLength(n \div 2)

\* one more than the largest limb
Base == PowerOfTwo(LimbBits)

\* the Number that is the integer n
NumberOf(n) == << n * PowerOfTwo(Places - 2 * LimbBits), 0, 0 >>

\* the exact sum of two fixed-point numbers
AddLimbs(x, y) ==
    LET low    == x[3] + y[3]
        middle == x[2] + y[2] + low \div Base
    IN  << x[1] + y[1] + middle \div Base, middle % Base, low % Base >>

\* long division of a fixed-point number by a positive integer: the
\* quotient rounded down to the last place, and whether nothing is left over
LongDivision(x, d) ==
    LET middle == (x[1] % d) * Base + x[2]
        low    == (middle % d) * Base + x[3]
    IN  [quotient |-> << x[1] \div d, middle \div d, low \div d >>,
         exact    |-> low % d = 0]

\* the position of the leading one of a fixed-point number, counted from
\* the last place
Length(x) ==
    IF x[1] > 0 THEN 2 * LimbBits + BitLength(x[1])
    ELSE IF x[2] > 0 THEN LimbBits + BitLength(x[2])
    ELSE BitLength(x[3])

\* The binary64 value nearest to the value of x (plus something below the
\* last place when inexact): the bits after the 53rd significant one are
\* dropped, and one unit in the 53rd is added when they are more than half
\* a unit, or exactly half and the 53rd bit is 1
RoundToNearest(x, inexact) ==
    IF Length(x) <= Precision THEN x
    ELSE LET unit == PowerOfTwo(Length(x) - Precision)
             low  == x[3] % unit
             kept == << x[1], x[2], x[3] - low >>
         IN  IF \/ 2 * low > unit
                \/ 2 * low = unit /\ (inexact \/ (x[3] \div unit) % 2 = 1)
             THEN AddLimbs(kept, << 0, 0, unit >>)
             ELSE kept

\* x + y
NumberAdd(x, y) == The({ RoundToNearest(sum, FALSE) : sum \in { AddLimbs(x, y) } })

\* x / d for a positive integer d
NumberDivide(x, d) ==
    The({ RoundToNearest(r.quotient, ~r.exact) : r \in { LongDivision(x, d) } })

\* x < y
NumberLess(x, y) ==
    \E i \in 1..Len(x) : x[i] < y[i] /\ \A j \in 1..(i - 1) : x[j] = y[j]

\* one turn of the forEach of FileIndex.calculateRelevanceScore: score
\* after the line
ScoreLine(score, queryLower, line) ==
    LET content == LowerText(line.content)
        matches == CountMatches(content, queryLower)
        room    == IF Len(line.content) < 100 THEN 100 - Len(line.content) ELSE 0
    IN  The({ IF Includes(content, << " " >> \o queryLower \o << " " >>)
              THEN NumberAdd(shorter, NumberOf(2))
              ELSE shorter
              : shorter \in
                  { NumberAdd(counted, NumberDivide(NumberOf(room), 100))
                    : counted \in { NumberAdd(score, NumberOf(matches)) } } })

\* the forEach of FileIndex.calculateRelevanceScore: score after the lines
RECURSIVE ScoreLoop(_, _, _)
ScoreLoop(score, queryLower, matchedLines) ==
    IF matchedLines = <<>> THEN score
    ELSE The({ ScoreLoop(next, queryLower, Tail(matchedLines))
               : next \in { ScoreLine(score, queryLower, Head(matchedLines)) } })

\* FileIndex.calculateRelevanceScore, computed in the Number arithmetic of
\* the runtime (calculateRelevanceScore above is the exact value)
calculateRelevanceScoreNumber(query, matchedLines) ==
    The({ NumberDivide(score, Len(matchedLines))
          : score \in { ScoreLoop(NumberOf(0), LowerText(query), matchedLines) } })
-----------------------------------------------------------------------------
(* LightningFileSystem: the store kept in a lightning-fs disk *)

\* The lightning-fs disk names an entry by the parts of its path: leading
\* slashes do not tell two paths apart.
RECURSIVE DiskPath(_)
DiskPath(path) ==
    IF path # <<>> /\ path[1] = "/" THEN DiskPath(Tail(path)) ELSE path

\* new LightningFileSystem(): an empty disk, no listeners
LightningFileSystem ==
    [disk |-> EmptyMap, listeners |-> <<>>, delivered |-> <<>>, uncaught |-> FALSE]

\* the object at the start of a call
Lightning == [lightning EXCEPT !.delivered = <<>>, !.uncaught = FALSE]

\* LightningFileSystem.normalizePath: '' for a path that is not given;
\* backslashes become slashes
lightningNormalizePath(path) ==
    IF path = Null \/ path = <<>> THEN <<>>
    ELSE [i \in 1..Len(path) |-> IF path[i] = "\\" THEN "/" ELSE path[i]]

RootPrefix == << "/", "r", "o", "o", "t", "/" >>

\* fs.stat(path).size: the bytes of the content.  Every character of the
\* model's alphabet is one byte in UTF-8.
StatSize(entry) == IF entry.type = "file" THEN Len(entry.content) ELSE 0

\* fs.readFile(path, 'utf8') resolves when the path names a file
Readable(disk, path) == Has(disk, DiskPath(path)) /\ disk[DiskPath(path)].type = "file"

\* LightningFileSystem.addFile: mkdir or writeFile at "/root/" + the path,
\* stat, and file_added.  The object and the entry returned; writeFile
\* rejects, and addFile with it, when the path names a directory.
lightningAddFile(l, path, content, type) ==
    LET normalizedPath == RootPrefix \o lightningNormalizePath(path)
        entry   == FileEntry(normalizedPath,
                             IF type = "file" THEN content ELSE Null, type,
                             IF type = "file" THEN Len(content) ELSE 0)
        written == [l EXCEPT !.disk = Put(@, DiskPath(normalizedPath), entry)]
    IN  IF /\ type = "file"
           /\ Has(l.disk, DiskPath(normalizedPath))
           /\ l.disk[DiskPath(normalizedPath)].type = "directory"
        THEN [l |-> l, file |-> NoFile, threw |-> TRUE]
        ELSE [l |-> notifyListeners(written, "file_added",
                                    FileEvent(normalizedPath, type, StatSize(entry),
                                              Null, Null)),
              file |-> entry, threw |-> FALSE]

\* LightningFileSystem.getFile: the entry read from the disk, or NoFile (null)
lightningGetFile(l, filePath) ==
    LET normalizedPath == lightningNormalizePath(filePath)
    IN  IF Has(l.disk, DiskPath(normalizedPath))
        THEN [l.disk[DiskPath(normalizedPath)] EXCEPT !.path = normalizedPath]
        ELSE NoFile

\* LightningFileSystem.updateFile: readFile; when it rejects, addFile;
\* otherwise writeFile, stat, and file_updated
lightningUpdateFile(l, filePath, newContent) ==
    LET normalizedPath == lightningNormalizePath(filePath)
    IN  IF ~Readable(l.disk, normalizedPath)
        THEN lightningAddFile(l, normalizedPath, newContent, "file")
        ELSE LET oldContent == l.disk[DiskPath(normalizedPath)].content
                 entry   == FileEntry(normalizedPath, newContent, "file",
                                      Len(newContent))
                 written == [l EXCEPT !.disk = Put(@, DiskPath(normalizedPath), entry)]
             IN  [l |-> notifyListeners(written, "file_updated",
                                        FileEvent(normalizedPath, "file",
                                                  StatSize(entry), oldContent,
                                                  newContent)),
                  file |-> entry, threw |-> FALSE]

\* LightningFileSystem.deleteFile: the object and the returned boolean
lightningDeleteFile(l, filePath) ==
    LET normalizedPath == lightningNormalizePath(filePath)
        existingFile   == lightningGetFile(l, normalizedPath)
    IN  IF existingFile = NoFile THEN [l |-> l, ok |-> FALSE]
        ELSE [l |-> notifyListeners(
                        [l EXCEPT !.disk = Remove(@, DiskPath(normalizedPath))],
                        "file_deleted",
                        FileEvent(normalizedPath, existingFile.type,
                                  existingFile.size, Null, Null)),
              ok |-> TRUE]

-----------------------------------------------------------------------------
(* undo() calls that overlap.  A call runs up to its first await that has to
   wait; from there on it is a chain of continuations, each a job of the
   microtask queue: a continuation runs when the promise it awaits has
   resolved, and the queue is first in, first out.  The variable tasks is
   the queue: one entry for each call that has not resolved, with the
   continuations it still has to run. *)

\* VirtualFileSystem.addFile up to its await, and the continuations the call
\* still has to run: indexFile is awaited only for a file with content
addFileUntilAwait(w, path, content) ==
    LET normalizedPath == normalizePath(path)
        fileSize == IF Truthy(content) THEN Len(content) ELSE 0
        stored   == [w EXCEPT !.files = Put(@, normalizedPath,
                                            FileEntry(normalizedPath, content,
                                                      "file", fileSize))]
    IN  IF Truthy(content)
        THEN [w    |-> indexFileUntilAwait(stored, normalizedPath, content),
              then |-> << "indexFile", "addFile" >>]
        ELSE [w    |-> notifyListeners(stored, "file_added",
                                       FileEvent(normalizedPath, "file", fileSize,
                                                 Null, Null)),
              then |-> <<>>]

\* VirtualFileSystem.updateFile up to its await
updateFileUntilAwait(w, filePath, newContent) ==
    LET normalizedPath == normalizePath(filePath)
    IN  IF Has(w.files, normalizedPath)
        THEN [w |-> indexFileUntilAwait(
                        [w EXCEPT !.files =
                            Put(@, normalizedPath,
                                [w.files[normalizedPath] EXCEPT
                                    !.content = newContent,
                                    !.size = Len(newContent)])],
                        normalizedPath, newContent),
              then |-> << "indexFile", "updateFile" >>]
        ELSE The({ [w |-> r.w, then |-> Append(r.then, "return await addFile")]
                   : r \in { addFileUntilAwait(w, normalizedPath, newContent) } })

\* ChangeTracker.revertChange up to its await, with revertCreate, revertEdit
\* and revertDelete (the path is a string)
revertChangeUntilAwait(w, change) ==
    CASE change.type = "create" ->
             [w |-> deleteFile(w, change.filePath).w, then |-> << "revertChange" >>]
      [] change.type = "edit" /\ change.oldContent # Null ->
             The({ [w |-> r.w, then |-> r.then \o << "revertEdit", "revertChange" >>]
                   : r \in { updateFileUntilAwait(w, change.filePath,
                                                  change.oldContent) } })
      [] change.type = "delete" /\ change.oldContent # Null ->
             The({ [w |-> r.w, then |-> r.then \o << "revertDelete", "revertChange" >>]
                   : r \in { addFileUntilAwait(w, change.filePath,
                                               change.oldContent) } })
      [] OTHER -> [w |-> w, then |-> << "revertChange" >>]

\* a call of undo() that has not resolved: the entry it popped, the content
\* its store call writes and the old content and kind of the entry that
\* updateFile found, and the continuations it still has to run
UndoCall(action, content, existingFile, then) ==
    [action |-> action, content |-> content, existingFile |-> existingFile,
     then |-> then]

\* ChangeTracker.undo up to its await (the undo stack is not empty)
undoUntilAwait(w, t) ==
    LET action == Top(t.undoStack)
        change == t.changeObjs[action.change]
        path   == normalizePath(change.filePath)
    IN  The({ [w    |-> r.w,
               t    |-> [t EXCEPT !.undoStack = Front(@)],
               call |-> UndoCall(action, change.oldContent,
                                 IF Has(w.files, path) THEN w.files[path] ELSE NoFile,
                                 Append(r.then, "undo"))]
              : r \in { revertChangeUntilAwait(w, change) } })

\* the next continuation of a call of undo(): what it does to the store and
\* to the tracker
resumeUndo(w, t, call) ==
    LET path == normalizePath(t.changeObjs[call.action.change].filePath)
        at   == Head(call.then)
    IN  CASE at = "indexFile" ->
                 [w |-> indexFileAfterAwait(w, path, call.content), t |-> t]
          [] at = "updateFile" ->
                 [w |-> notifyListeners(
                            [w EXCEPT !.cache = storeFileContent(@, path, call.content)],
                            "file_updated",
                            FileEvent(path, call.existingFile.type, Len(call.content),
                                      call.existingFile.content, call.content)),
                  t |-> t]
          [] at = "addFile" ->
                 [w |-> notifyListeners(w, "file_added",
                                        FileEvent(path, "file", Len(call.content),
                                                  Null, Null)),
                  t |-> t]
          [] at = "undo" ->
                 [w |-> w,
                  t |-> notifyListeners([t EXCEPT !.redoStack = Append(@, call.action)],
                                        "change_undone", call.action.change)]
          [] OTHER -> [w |-> w, t |-> t]

-----------------------------------------------------------------------------
(* undo() and redo() when window.fileSystem is the LightningFileSystem, whose
   deleteFile is an async function: its promise resolves after the disk has
   answered, long after the microtasks of the caller have run. *)

\* ChangeTracker.revertChange and applyChange on the LightningFileSystem: the
\* object, whether the awaited store call rejected, and the paths of the
\* deleteFile calls that were started and not awaited
lightningChange(l, change, revert) ==
    LET content == IF revert THEN change.oldContent ELSE change.newContent
        deletes == change.type = (IF revert THEN "create" ELSE "delete")
        adds    == change.type = (IF revert THEN "delete" ELSE "create")
    IN  IF change.type \notin { "create", "edit", "delete" }
        THEN [l |-> l, threw |-> TRUE, started |-> <<>>]
        ELSE IF deletes
        THEN [l |-> l, threw |-> FALSE, started |-> << change.filePath >>]
        ELSE IF content = Null
        THEN [l |-> l, threw |-> FALSE, started |-> <<>>]
        ELSE The({ [l |-> IF r.threw THEN l ELSE r.l, threw |-> r.threw,
                    started |-> <<>>]
                   : r \in { IF adds
                             THEN lightningAddFile(l, change.filePath, content, "file")
                             ELSE lightningUpdateFile(l, change.filePath, content) } })

\* ChangeTracker.undo (revert) and ChangeTracker.redo, awaited, on the
\* LightningFileSystem: the call resolves with the deleteFile calls it
\* started still running
lightningReplay(l, t, revert) ==
    LET from   == IF revert THEN t.undoStack ELSE t.redoStack
        action == Top(from)
        change == t.changeObjs[action.change]
        r      == lightningChange(l, change, revert)
        popped == IF revert THEN [t EXCEPT !.undoStack = Front(@)]
                  ELSE [t EXCEPT !.redoStack = Front(@)]
        moved  == IF revert THEN [popped EXCEPT !.redoStack = Append(@, action)]
                  ELSE [popped EXCEPT !.undoStack = Append(@, action)]
    IN  IF Len(from) = 0
        THEN [l |-> l, t |-> t, ret |-> "false", started |-> <<>>]
        ELSE IF r.threw
        THEN [l |-> r.l, t |-> t, ret |-> "threw", started |-> <<>>]
        ELSE [l |-> r.l,
              t |-> notifyListeners(moved,
                                    IF revert THEN "change_undone" ELSE "change_redone",
                                    action.change),
              ret |-> "true", started |-> r.started]
-----------------------------------------------------------------------------
(* Inputs *)

PathA == <<"a", ".", "t", "x", "t">>
PathB == <<"l", "i", "b">>
Paths == { PathA, PathB }

TextFoo   == <<"f", "o", "o", "(", ")", "{", "\n", "b", "a", "r">>
TextBar   == <<"b", "a", "r", " ", "b", "a", "z">>
TextEmpty == <<>>
StoreTexts == { TextFoo, TextBar, TextEmpty }

\* what the store API is called with: every text at PathA, one text at PathB
StoreWrites == { << PathA, content >> : content \in StoreTexts }
                   \cup { << PathB, TextFoo >> }

\* room left in every list of the symbol index
IndexRoom == \A name \in DOMAIN symbolIndex : Len(symbolIndex[name]) < MaxSymbols

\* a call, and how it ended: "resolved"; "true" / "false" (the value
\* returned); "entry" / "null" (getFile); "returned" / "threw" (a tool, undo,
\* redo).  run counts the tool calls that returned in a row, this one included.
Call(op, path, content, result) ==
    [op |-> op, path |-> path, content |-> content, result |-> result, run |-> 0]

\* a call with its input and the value it gave
Returned(op, input, result, value) ==
    [op |-> op, path |-> <<>>, content |-> Null, result |-> result, run |-> 0,
     input |-> input, value |-> value]

-----------------------------------------------------------------------------
(* The store driven through its own API (import source, editor) *)

Init ==
    /\ files = EmptyMap
    /\ tokenIndex = {}
    /\ lineIndex = EmptyMap
    /\ symbolIndex = EmptyMap
    /\ fileHashes = EmptyMap
    /\ cache = EmptyMap
    /\ listeners = <<>>
    /\ delivered = <<>>
    /\ changeListeners = <<>>
    /\ changeDelivered = <<>>
    /\ lightning = LightningFileSystem
    /\ tasks = <<>>
    /\ changeObjs = <<>>
    /\ changes = EmptyMap
    /\ undoStack = <<>>
    /\ redoStack = <<>>
    /\ isProcessing = FALSE
    /\ conversationHistory = <<>>
    /\ requests = <<>>
    /\ toolRegistry = ToolRegistry
    /\ last = Call("none", <<>>, Null, "resolved")

\* await fileSystem.addFile(path, content, type)
AddFile(path, content, type) ==
    /\ IndexRoom
    /\ \E w \in { addFile(World, path, content, type) } :
           /\ SetWorld(w)
           /\ last' = Call("addFile", path, content,
                           IF w.uncaught THEN "threw" ELSE "resolved")
    /\ UNCHANGED << trackerVars, agentVars, lightning, tasks >>

\* await fileSystem.updateFile(path, content)
UpdateFile(path, content) ==
    /\ IndexRoom
    /\ \E w \in { updateFile(World, path, content) } :
           /\ SetWorld(w)
           /\ last' = Call("updateFile", path, content,
                           IF w.uncaught THEN "threw" ELSE "resolved")
    /\ UNCHANGED << trackerVars, agentVars, lightning, tasks >>

\* fileSystem.deleteFile(path)
DeleteFile(path) ==
    \E r \in { deleteFile(World, path) } :
        /\ SetWorld(r.w)
        /\ last' = Call("deleteFile", path, Null,
                        IF r.w.uncaught THEN "threw"
                        ELSE IF r.ok THEN "true" ELSE "false")
        /\ UNCHANGED << trackerVars, agentVars, lightning, tasks >>

\* await fileSystem.getFile(path)
GetFile(path) ==
    \E r \in { getFile(World, path) } :
        /\ SetWorld(r.w)
        /\ last' = Call("getFile", path, r.file.content,
                        IF r.file # NoFile THEN "entry" ELSE "null")
        /\ UNCHANGED << trackerVars, agentVars, lightning, tasks >>

\* An hour passes: the cached content of a path is past its ttl, and
\* getFileContent will drop it and return null.
ExpireCache(path) ==
    /\ Has(cache, simpleHash(path))
    /\ cache' = Remove(cache, simpleHash(path))
    /\ last' = Call("expire", path, Null, "resolved")
    /\ UNCHANGED << files, tokenIndex, lineIndex, symbolIndex, fileHashes,
                    listeners, delivered, trackerVars, agentVars, lightning, tasks >>

NextStore ==
    \/ \E write \in StoreWrites : AddFile(write[1], write[2], "file")
    \/ AddFile(PathB, Null, "directory")
    \/ \E write \in StoreWrites : UpdateFile(write[1], write[2])
    \/ \E path \in Paths : DeleteFile(path)
    \/ \E path \in Paths : GetFile(path)
    \/ \E path \in Paths : ExpireCache(path)

SpecStore == Init /\ [][NextStore]_vars

-----------------------------------------------------------------------------
(* The session: an imported tree, tool calls, undo and redo *)

TextFooBarFoo == <<"f", "o", "o", " ", "b", "a", "r", " ", "f", "o", "o">>
TextBazBarBaz == <<"b", "a", "z", " ", "b", "a", "r", " ", "b", "a", "z">>
WordFoo == <<"f", "o", "o">>
WordBar == <<"b", "a", "r">>
WordBaz == <<"b", "a", "z">>
WordQux == <<"q", "u", "x">>
MatchedText == <<"$", "&">>

\* write_file calls: file_path, content
ToolWrites == { << PathA, WordBar >>, << PathB, WordBar >> }

\* create_file calls: file_path, content
ToolCreates == { << PathA, TextFooBarFoo >> }

\* edit_file calls: file_path, old_content, new_content, replace_all
ToolEdits ==
    { << PathA, WordFoo, WordBaz, FALSE >>, << PathA, WordFoo, WordBaz, TRUE >>,
      << PathA, WordQux, WordBaz, TRUE >>,  << PathA, WordBar, MatchedText, TRUE >> }

\* delete_file calls: file_path, confirm
ToolDeletes == { << PathA, TRUE >>, << PathA, FALSE >> }

\* what the import source supplies before the session's first change
ImportEntries == { << PathB, Null, "directory" >> }

\* the outcome of a tool call becomes the next state
SetOutcome(r, op, path) ==
    /\ r.ok => Len(changeObjs) < MaxChanges
    /\ SetWorld(r.w)
    /\ SetTracker(r.t)
    /\ UNCHANGED << agentVars, lightning, tasks >>
    /\ last' = IF r.ok
               THEN [Call(op, path, Null, "returned") EXCEPT !.run = last.run + 1]
               ELSE Call(op, path, Null, "threw")

\* loadRepository: await this.addFile(fileData.path, fileData.content, fileData.type)
ImportEntry(path, content, type) ==
    /\ changeObjs = <<>>
    /\ ~Has(files, normalizePath(path))
    /\ IndexRoom
    /\ \E w \in { addFile(World, path, content, type) } :
           /\ SetWorld(w)
           /\ last' = Call("addFile", path, content,
                           IF w.uncaught THEN "threw" ELSE "resolved")
    /\ UNCHANGED << trackerVars, agentVars, lightning, tasks >>

\* await toolRegistry.execute('write_file', { file_path, content })
WriteFile(path, content) ==
    /\ IndexRoom
    /\ \E r \in { writeFile(World, Tracker, path, content) } :
           SetOutcome(r, "write_file", path)

\* await toolRegistry.execute('edit_file', { file_path, old_content, new_content, replace_all })
EditFile(path, old_content, new_content, replace_all) ==
    /\ IndexRoom
    /\ \E r \in { editFile(World, Tracker, path, old_content, new_content,
                            replace_all) } :
           SetOutcome(r, "edit_file", path)

\* await toolRegistry.execute('create_file', { file_path, content })
CreateFile(path, content) ==
    /\ IndexRoom
    /\ \E r \in { createFile(World, Tracker, path, content, "text") } :
           SetOutcome(r, "create_file", path)

\* await toolRegistry.execute('delete_file', { file_path, confirm })
DeleteFileTool(path, confirm) ==
    \E r \in { deleteFileTool(World, Tracker, path, confirm) } :
        SetOutcome(r, "delete_file", path)

\* await changeTracker.undo()
Undo ==
    \E r \in { undo(World, Tracker) } :
        /\ IndexRoom
        /\ SetWorld(r.w)
        /\ SetTracker(r.t)
        /\ UNCHANGED << agentVars, lightning, tasks >>
        /\ last' = Call("undo", <<>>, Null, r.ret)

\* await changeTracker.redo()
Redo ==
    \E r \in { redo(World, Tracker) } :
        /\ IndexRoom
        /\ SetWorld(r.w)
        /\ SetTracker(r.t)
        /\ UNCHANGED << agentVars, lightning, tasks >>
        /\ last' = Call("redo", <<>>, Null, r.ret)

Next ==
    \/ \E entry \in ImportEntries : ImportEntry(entry[1], entry[2], entry[3])
    \/ \E write \in ToolWrites : WriteFile(write[1], write[2])
    \/ \E edit \in ToolEdits : EditFile(edit[1], edit[2], edit[3], edit[4])
    \/ \E create \in ToolCreates : CreateFile(create[1], create[2])
    \/ \E delete \in ToolDeletes : DeleteFileTool(delete[1], delete[2])
    \/ Undo
    \/ Redo

Spec == Init /\ [][Next]_vars

-----------------------------------------------------------------------------
(* The tracker fed by a caller other than the file tools *)

\* recordChange calls: type, filePath, oldContent, newContent.  A type the
\* tracker has no handler for; a create whose path is null.
OtherChanges == { << "rename", PathA, Null, Null >>,
                  << "create", Null, Null, WordBar >> }

\* changeTracker.recordChange(new Change(type, filePath, oldContent, newContent))
RecordOther(type, path, oldContent, newContent) ==
    /\ Len(changeObjs) < MaxChanges
    /\ \E t \in { recordChange(Tracker, type, path, oldContent, newContent) } :
           /\ SetTracker(t)
           /\ last' = Call("recordChange", path, Null,
                           IF t.uncaught THEN "threw" ELSE "returned")
    /\ UNCHANGED << storeVars, agentVars, lightning, tasks >>

NextFault ==
    \/ \E other \in OtherChanges : RecordOther(other[1], other[2], other[3], other[4])
    \/ WriteFile(PathA, WordBar)
    \/ DeleteFileTool(PathA, TRUE)
    \/ Undo
    \/ Redo

SpecFault == Init /\ [][NextFault]_vars

-----------------------------------------------------------------------------
(* The session with the project loaded again while it runs *)

\* loadDemoProject: await fileSystem.addFile(filePath, fileData.content, fileData.type)
DemoEntries == { << PathA, TextFooBarFoo, "file" >> }

NextReload ==
    \/ \E entry \in DemoEntries : AddFile(entry[1], entry[2], entry[3])
    \/ \E write \in ToolWrites : WriteFile(write[1], write[2])
    \/ \E create \in ToolCreates : CreateFile(create[1], create[2])
    \/ \E delete \in ToolDeletes : DeleteFileTool(delete[1], delete[2])
    \/ Undo
    \/ Redo

SpecReload == Init /\ [][NextReload]_vars

-----------------------------------------------------------------------------
(* The tool calls of the model's replies, run through the registry *)

Props2(name1, value1, name2, value2) == (name1 :> value1) @@ (name2 :> value2)

\* the tool calls a reply can hold: a name that is not registered; arguments
\* that are valid, incomplete, wrongly typed, or null; operations that throw
ToolCalls ==
    { ToolCall("run_shell", JsObject(EmptyMap)),
      ToolCall("write_file", JsObject(Props2("file_path", JsString(PathA),
                                             "content", JsString(WordBar)))),
      ToolCall("write_file", JsObject("file_path" :> JsString(PathA))),
      ToolCall("write_file", JsObject(Props2("file_path", JsString(PathA),
                                             "content", JsNumber))),
      ToolCall("write_file", JsNull),
      ToolCall("create_file", JsObject(Props2("file_path", JsString(PathA),
                                              "content", JsString(TextFooBarFoo)))),
      ToolCall("edit_file", JsObject(Props2("file_path", JsString(PathA),
                                            "old_content", JsString(WordFoo))
                                     @@ Props2("new_content", JsString(WordBaz),
                                               "replace_all", JsBoolean(TRUE)))),
      ToolCall("delete_file", JsObject(Props2("file_path", JsString(PathA),
                                              "confirm", JsBoolean(TRUE)))),
      ToolCall("delete_file", JsObject(Props2("file_path", JsString(PathA),
                                              "confirm", JsBoolean(FALSE)))),
      ToolCall("delete_file", JsObject(Props2("file_path", JsString(PathA),
                                              "confirm", JsString(WordBar)))) }

\* await this.toolRegistry.execute(toolCall)
Execute(toolCall) ==
    /\ IndexRoom
    /\ \E r \in { execute(World, Tracker, toolCall) } :
           /\ Len(r.t.changeObjs) <= MaxChanges
           /\ SetWorld(r.w)
           /\ SetTracker(r.t)
           /\ last' = Returned("execute", toolCall, r.settled, r.value)
    /\ UNCHANGED << agentVars, lightning, tasks >>

NextRegistry ==
    \/ \E toolCall \in ToolCalls : Execute(toolCall)
    \/ Undo
    \/ Redo

SpecRegistry == Init /\ [][NextRegistry]_vars

-----------------------------------------------------------------------------
(* validateArgs applied to arguments of every shape *)

\* the values a property of the arguments can have
ArgValues == { JsString(WordFoo), JsString(EnumText), JsNumber, JsBoolean(TRUE) }

ValidatedTools == { "edit_file", "create_file" }

\* the names of the parameters of a tool
ParamNames(name) == { parameters[name][i].name : i \in 1..Len(parameters[name]) }

\* every arguments object over the parameters of the tool, and null
ArgumentsOf(name) ==
    { JsObject(props) :
        props \in UNION { [given -> ArgValues] : given \in SUBSET ParamNames(name) } }
    \cup { JsNull }

\* tool.validateArgs(toolCall.arguments)
ValidateArgs(name, arguments) ==
    /\ \E r \in { validateArgs(parameters[name], arguments) } :
           last' = Returned("validateArgs", ToolCall(name, arguments),
                            IF r.threw THEN "threw" ELSE "returned", r.errors)
    /\ UNCHANGED << storeVars, trackerVars, agentVars, lightning, tasks >>

NextValidate ==
    \E name \in ValidatedTools : \E arguments \in ArgumentsOf(name) :
        ValidateArgs(name, arguments)

SpecValidate == Init /\ [][NextValidate]_vars

-----------------------------------------------------------------------------
(* Context selection over a loaded project *)

PathAuth  == << "a", "u", "t", "h", ".", "j", "s" >>
PathLib   == << "l", "i", "b", ".", "j", "s" >>
PathNotes == << "n", ".", "t", "x", "t" >>

WordFix  == << "f", "i", "x" >>
WordBug  == << "b", "u", "g" >>
WordAuth == << "a", "u", "t", "h" >>
TextImportLib == << "i", "m", "p", "o", "r", "t", " ", "l", "i", "b" >>
TextFixBug == << "f", "i", "x", " ", "b", "u", "g", " ", "n", "o", "w" >>

\* the files of the project: path, content
ContextEntries ==
    { << PathAuth, TextImportLib >>, << PathLib, WordBug >>,
      << PathLib, TextFixBug >>, << PathNotes, WordBug >> }

\* what analyzeIntent gives findRelevantFiles: for 'fix bug in auth.js'; for a
\* prompt that names two files; for one that names a file and has no keyword;
\* for one that names no file
Intents ==
    { UserIntent(<< PathAuth >>, << WordFix, WordBug, WordAuth >>),
      UserIntent(<< PathAuth, PathLib >>, <<>>),
      UserIntent(<< PathAuth >>, <<>>),
      UserIntent(<<>>, << WordBug >>) }

\* options.maxFiles || 5
MaxFilesChoices == { 1, 2, 5 }

\* the orders in which the paths of the store can have been inserted
Orders(fs) ==
    { order \in [1..Cardinality(DOMAIN fs) -> DOMAIN fs] :
        \A i, j \in DOMAIN order : order[i] = order[j] => i = j }

\* await this.findRelevantFiles(intent, maxFiles).  The session cache is
\* empty, so that the getFile calls leave the store as it is.
FindRelevantFiles(intent, maxFiles, order) ==
    /\ cache = EmptyMap
    /\ \E found \in { findRelevantFiles(World, intent, maxFiles, order) } :
           last' = Returned("findRelevantFiles",
                            [intent |-> intent, maxFiles |-> maxFiles],
                            "resolved", found)
    /\ UNCHANGED << storeVars, trackerVars, agentVars, lightning, tasks >>

NextContext ==
    \/ \E entry \in ContextEntries : AddFile(entry[1], entry[2], "file")
    \/ \E intent \in Intents : \E maxFiles \in MaxFilesChoices :
           \E order \in Orders(files) : FindRelevantFiles(intent, maxFiles, order)

SpecContext == Init /\ [][NextContext]_vars

-----------------------------------------------------------------------------
(* Budget trimming of a list of candidates *)

Filler(n) == [i \in 1..n |-> "x"]

\* candidates as findRelevantFiles returns them, by the length of the content
Candidates ==
    { RelevantFile(PathAuth, Filler(700), Rat(1, 1), << "directly_mentioned" >>, <<>>),
      RelevantFile(PathLib, Filler(500), Rat(8, 10), << "keyword_match" >>, <<>>),
      RelevantFile(PathNotes, Filler(300), Rat(6, 10), << "dependency" >>, <<>>),
      RelevantFile(PathA, Filler(700), Rat(6, 10), << "dependency" >>, <<>>) }

\* the lists of distinct candidates
CandidateLists ==
    { list \in UNION { [1..n -> Candidates] : n \in 0..3 } :
        \A i, j \in DOMAIN list : list[i] = list[j] => i = j }

\* values of this.maxContextChars
Limits == { 1000, 1100, 1500 }

\* this.trimContextToLimit(context.relevantFiles)
TrimContextToLimit(relevantFiles, limit) ==
    /\ last' = Returned("trimContextToLimit",
                        [relevantFiles |-> relevantFiles, limit |-> limit],
                        "returned", trimContextToLimit(relevantFiles, limit))
    /\ UNCHANGED << storeVars, trackerVars, agentVars, lightning, tasks >>

NextTrim ==
    \E relevantFiles \in CandidateLists : \E limit \in Limits :
        TrimContextToLimit(relevantFiles, limit)

SpecTrim == Init /\ [][NextTrim]_vars


-----------------------------------------------------------------------------
(* The agent: prompts arriving while earlier prompts are at their awaits *)

ResponseText == << "d", "o", "n", "e" >>

\* the prompts of the user; they name the file of the model
Prompts == { WordFix \o << " " >> \o PathA }

\* the tool calls of one reply of the LLM
Replies ==
    { <<>>,
      << ToolCall("run_shell", JsObject(EmptyMap)) >>,
      << ToolCall("write_file", JsObject(Props2("file_path", JsString(PathA),
                                                "content", JsString(WordBar)))) >>,
      << ToolCall("write_file", JsNull),
         ToolCall("create_file", JsObject(Props2("file_path", JsString(PathA),
                                                 "content", JsString(TextFooBarFoo)))) >> }

\* agent.processMessage(message) is called
ProcessMessage(message) ==
    /\ Len(requests) < MaxPrompts
    /\ \E started \in { processMessageStart(Agent, message) } :
           /\ SetAgent(started.agent)
           /\ requests' = Append(requests,
                                 Request(message,
                                         IF started.threw THEN "rejected"
                                         ELSE "gatherContext",
                                         <<>>, FALSE))
    /\ UNCHANGED << storeVars, trackerVars, lightning, tasks, toolRegistry, last >>

\* await this.contextManager.gatherContext(message, options) resolves: the
\* file the message names was read through getFile
GatherContext(i) ==
    /\ requests[i].at = "gatherContext"
    /\ \E got \in { getFile(World, PathA) } : SetWorld(got.w)
    /\ requests' = [requests EXCEPT ![i].at = "streamCompletion"]
    /\ UNCHANGED << trackerVars, isProcessing, conversationHistory, lightning, tasks, toolRegistry, last >>

\* await this.llmClient.streamCompletion(...) resolves with the tool calls of
\* the reply; without tool calls processMessage runs to its end
StreamCompletion(i, toolCalls) ==
    /\ requests[i].at = "streamCompletion"
    /\ Len(changeObjs) + Len(toolCalls) <= MaxChanges
    /\ IF toolCalls = <<>>
       THEN /\ SetAgent(processMessageReturn(Agent, ResponseText))
            /\ requests' = [requests EXCEPT ![i].at = "returned"]
       ELSE /\ requests' = [requests EXCEPT ![i].at = "execute",
                                            ![i].toolCalls = toolCalls]
            /\ UNCHANGED << isProcessing, conversationHistory >>
    /\ UNCHANGED << storeVars, trackerVars, lightning, tasks, toolRegistry, last >>

\* await this.toolRegistry.execute(toolCall) resolves, for the next tool call
\* of the reply; after the last one processMessage goes on to the follow-up
\* request when a tool succeeded, and to its end otherwise
ExecuteToolCall(i) ==
    /\ requests[i].at = "execute"
    /\ IndexRoom
    /\ \E r \in { execute(World, Tracker, Head(requests[i].toolCalls)) } :
       \E succeeded \in { requests[i].succeeded \/ r.value.success } :
       \E rest \in { Tail(requests[i].toolCalls) } :
           /\ SetWorld(r.w)
           /\ SetTracker(r.t)
           /\ last' = Returned("execute", Head(requests[i].toolCalls),
                               r.settled, r.value)
           /\ UNCHANGED << lightning, tasks, toolRegistry >>
           /\ IF rest # <<>>
              THEN /\ requests' = [requests EXCEPT ![i].toolCalls = rest,
                                                   ![i].succeeded = succeeded]
                   /\ UNCHANGED << isProcessing, conversationHistory >>
              ELSE IF succeeded
              THEN /\ requests' = [requests EXCEPT ![i].at = "completion",
                                                   ![i].toolCalls = rest,
                                                   ![i].succeeded = succeeded]
                   /\ UNCHANGED << isProcessing, conversationHistory >>
              ELSE /\ requests' = [requests EXCEPT ![i].at = "returned",
                                                   ![i].toolCalls = rest]
                   /\ SetAgent(processMessageReturn(Agent, ResponseText))

\* await this.llmClient.completion(followUpRequest) resolves
Completion(i) ==
    /\ requests[i].at = "completion"
    /\ SetAgent(processMessageReturn(Agent, ResponseText))
    /\ requests' = [requests EXCEPT ![i].at = "returned"]
    /\ UNCHANGED << storeVars, trackerVars, lightning, tasks, toolRegistry, last >>

\* the awaited call rejects (gatherContext, the LLM client), or llmClient is
\* null when its provider is read: the catch block, then the finally block
AwaitRejects(i) ==
    /\ requests[i].at \in { "gatherContext", "streamCompletion", "completion" }
    /\ SetAgent(processMessageCatch(Agent))
    /\ requests' = [requests EXCEPT ![i].at = "threw"]
    /\ UNCHANGED << storeVars, trackerVars, lightning, tasks, toolRegistry, last >>

NextAgent ==
    \/ \E message \in Prompts : ProcessMessage(message)
    \/ \E i \in 1..Len(requests) : GatherContext(i)
    \/ \E i \in 1..Len(requests) : \E toolCalls \in Replies :
           StreamCompletion(i, toolCalls)
    \/ \E i \in 1..Len(requests) : ExecuteToolCall(i)
    \/ \E i \in 1..Len(requests) : Completion(i)
    \/ \E i \in 1..Len(requests) : AwaitRejects(i)

SpecAgent == Init /\ [][NextAgent]_vars

-----------------------------------------------------------------------------
(* Subscribers of the store and of the tracker, some of which throw *)

\* what a callback does when it is run
Callbacks == { "returns", "throws" }

\* A component subscribes to the stores and to the tracker:
\* fileSystem.addListener(callback), lightningFileSystem.addListener(callback)
\* and changeTracker.addListener(callback), with a callback not yet registered
AddListener(callback) ==
    /\ Len(listeners) < MaxListeners
    /\ listeners' = Append(listeners, callback)
    /\ delivered' = <<>>
    /\ changeListeners' = Append(changeListeners, callback)
    /\ changeDelivered' = <<>>
    /\ lightning' = [Lightning EXCEPT !.listeners = Append(@, callback)]
    /\ last' = Call("addListener", <<>>, Null, "returned")
    /\ UNCHANGED << files, tokenIndex, lineIndex, symbolIndex, fileHashes, cache,
                    changeObjs, changes, undoStack, redoStack, agentVars, tasks >>

NextListeners ==
    \/ \E callback \in Callbacks : AddListener(callback)
    \/ AddFile(PathA, WordFoo, "file")
    \/ UpdateFile(PathA, WordBar)
    \/ DeleteFile(PathA)
    \/ RecordOther("edit", PathA, WordFoo, WordBar)
    \/ Undo
    \/ Redo

SpecListeners == Init /\ [][NextListeners]_vars

-----------------------------------------------------------------------------
(* updateFile of the two stores, with subscribers *)

\* the files git.clone writes into the working directory
ClonedFiles == { << PathA, TextBar >> }

\* await lightningFileSystem.cloneRepository(repoUrl) on an empty disk:
\* git.clone writes the files of the repository, repository_loaded is emitted
LightningCloneRepository ==
    /\ lightning.disk = EmptyMap
    /\ \E written \in
           { [Lightning EXCEPT !.disk =
                 [path \in { DiskPath(file[1]) : file \in ClonedFiles } |->
                     The({ FileEntry(file[1], file[2], "file", Len(file[2])) :
                           file \in { f \in ClonedFiles : DiskPath(f[1]) = path } })]] } :
           lightning' = notifyListeners(written, "repository_loaded",
                                        FileEvent(<<>>, "repository",
                                                  Cardinality(ClonedFiles), Null, Null))
    /\ last' = Call("lightning.cloneRepository", <<>>, Null, "resolved")
    /\ UNCHANGED << storeVars, trackerVars, agentVars, tasks >>

\* await lightningFileSystem.updateFile(path, content)
LightningUpdateFile(path, content) ==
    /\ \E r \in { lightningUpdateFile(Lightning, path, content) } :
           /\ lightning' = r.l
           /\ last' = Call("lightning.updateFile", path, content,
                           IF r.threw THEN "threw" ELSE "resolved")
    /\ UNCHANGED << storeVars, trackerVars, agentVars, tasks >>

\* await lightningFileSystem.deleteFile(path)
LightningDeleteFile(path) ==
    /\ \E r \in { lightningDeleteFile(Lightning, path) } :
           /\ lightning' = r.l
           /\ last' = Call("lightning.deleteFile", path, Null,
                           IF r.ok THEN "true" ELSE "false")
    /\ UNCHANGED << storeVars, trackerVars, agentVars, tasks >>

NextUpdate ==
    \/ \E callback \in Callbacks : AddListener(callback)
    \/ \E write \in StoreWrites : UpdateFile(write[1], write[2])
    \/ LightningCloneRepository
    \/ \E content \in StoreTexts : LightningUpdateFile(PathA, content)
    \/ LightningDeleteFile(PathA)

SpecUpdate == Init /\ [][NextUpdate]_vars

-----------------------------------------------------------------------------
(* a session long enough to fill the undo stack, with undo of a full stack *)

\* every change the ledger holds
Recorded == UNION { { changes[path][i] : i \in 1..Len(changes[path]) } :
                    path \in DOMAIN changes }

\* the changes the stacks hold
Undoable == { undoStack[i].change : i \in 1..Len(undoStack) }
Redoable == { redoStack[i].change : i \in 1..Len(redoStack) }

\* changes that were undone and are not on the undo stack again: on the
\* redo stack, or dropped from it by a later recordChange
Discarded ==
    { ref \in Recorded \ Undoable : \E older \in Undoable : older < ref }
        \cup Redoable

\* changeTracker.recordChange(new Change('edit', path, oldContent, newContent))
\* in the long session
RecordChange(path, oldContent, newContent) ==
    /\ Len(changeObjs) < MaxRecorded
    /\ \E t \in { recordChange(Tracker, "edit", path, oldContent, newContent) } :
           /\ SetTracker(t)
           /\ last' = Call("recordChange", path, Null,
                           IF t.uncaught THEN "threw" ELSE "returned")
    /\ UNCHANGED << storeVars, agentVars, lightning, tasks >>

NextHistory ==
    \/ RecordChange(PathA, WordFoo, WordBar)
    \/ /\ Len(undoStack) = maxHistorySize
       /\ Cardinality(Discarded) < MaxDiscarded
       /\ Undo
    \/ Redo

SpecHistory == Init /\ [][NextHistory]_vars

-----------------------------------------------------------------------------
(* the ledger: recording, compression, export and import, clearing *)

\* the changes the file tools record: type, filePath, oldContent, newContent
LedgerChanges == { << "create", PathA, Null, WordFoo >>,
                   << "edit", PathA, WordFoo, WordBar >>,
                   << "edit", PathA, WordBar, WordFoo >>,
                   << "delete", PathA, WordBar, Null >>,
                   << "edit", PathB, WordFoo, WordBar >> }

\* changeTracker.compressHistory()
CompressHistory ==
    /\ \E r \in { compressHistory(Tracker) } :
           /\ SetTracker(r.t)
           /\ last' = Returned("compressHistory", <<>>, "returned", r.removedCount)
    /\ UNCHANGED << storeVars, agentVars, lightning, tasks >>

\* changeTracker.importChanges(changeTracker.exportChanges())
ExportImport ==
    /\ \E data \in { exportChanges(Tracker) } :
           /\ Len(changeObjs) + Len(data.changes) <= 2 * MaxChanges
           /\ \E r \in { importChanges(Tracker, data) } :
                  /\ SetTracker(r.t)
                  /\ last' = Returned("importChanges", data,
                                      IF r.threw THEN "threw" ELSE "returned",
                                      Len(data.changes))
    /\ UNCHANGED << storeVars, agentVars, lightning, tasks >>

\* changeTracker.clearFile(path)
ClearFile(path) ==
    /\ \E t \in { clearFile(Tracker, path) } :
           /\ SetTracker(t)
           /\ last' = Call("clearFile", path, Null, "returned")
    /\ UNCHANGED << storeVars, agentVars, lightning, tasks >>

NextLedger ==
    \/ \E change \in LedgerChanges :
           RecordOther(change[1], change[2], change[3], change[4])
    \/ CompressHistory
    \/ ExportImport
    \/ \E path \in Paths : ClearFile(path)

SpecLedger == Init /\ [][NextLedger]_vars

\* edits of one file and the creation of another, compressed, cleared,
\* exported, undone and redone
NextReplay ==
    \/ RecordOther("edit", PathA, WordFoo, WordBar)
    \/ RecordOther("edit", PathA, WordBar, WordFoo)
    \/ RecordOther("create", PathB, Null, WordFoo)
    \/ CompressHistory
    \/ ExportImport
    \/ ClearFile(PathA)
    \/ Undo
    \/ Redo

SpecReplay == Init /\ [][NextReplay]_vars

-----------------------------------------------------------------------------
(* read_file with line bounds *)

\* files of one, two and three lines
TextLines == << "a", "\n", "b", "\n", "c" >>
ReadTexts == { WordFoo, TextFoo, TextLines }

\* the numbers a call gives as start_line and end_line
LineNumbers == -2..MaxLine

\* read_file({file_path, start_line, end_line})
ReadFile(file_path, start_line, end_line) ==
    /\ \E r \in { readFile(World, file_path, start_line, end_line) } :
           /\ SetWorld(r.w)
           /\ last' = [Returned("read_file", << start_line, end_line >>,
                                IF r.threw THEN "threw" ELSE "returned", r.lines)
                           EXCEPT !.path = file_path]
    /\ UNCHANGED << trackerVars, agentVars, lightning, tasks >>

NextRead ==
    \/ \E content \in ReadTexts : AddFile(PathA, content, "file")
    \/ \E start_line, end_line \in LineNumbers :
           ReadFile(PathA, Number(start_line), Number(end_line))
    \/ \E line \in LineNumbers : ReadFile(PathA, Undefined, Number(line))
    \/ \E line \in LineNumbers : ReadFile(PathA, Number(line), Undefined)
    \/ ReadFile(PathA, Undefined, Undefined)

SpecRead == Init /\ [][NextRead]_vars

-----------------------------------------------------------------------------
(* buildIndex: indexFile calls that are in flight together *)

\* what the store is loaded with before the index is built
IndexEntries == { << PathA, TextFoo >>, << PathA, WordBar >>,
                  << PathB, TextFoo >>, << PathB, WordBar >>,
                  << PathAuth, WordBar >> }

\* the paths of the store that hold a file
FilePaths == { path \in DOMAIN files : files[path].type = "file" }

\* the orders a Map can hold the paths in
PathOrders(paths) ==
    { order \in [1..Cardinality(paths) -> paths] :
        \A i, j \in 1..Cardinality(paths) : i # j => order[i] # order[j] }

\* an indexFile call waiting at its await
IndexTask(filePath, content) == [filePath |-> filePath, content |-> content]

\* fileSystem.index.buildIndex(fileSystem.files), up to its await of
\* Promise.all: the index is cleared and every indexFile call has begun
BuildIndex(order) ==
    /\ tasks = <<>>
    /\ SetWorld(StartIndexing(clearIndex(World), order))
    /\ tasks' = [i \in 1..Len(order) |-> IndexTask(order[i], files[order[i]].content)]
    /\ last' = Call("buildIndex", <<>>, Null,
                    IF order = <<>> THEN "resolved" ELSE "pending")
    /\ UNCHANGED << trackerVars, agentVars, lightning >>

\* the continuation of one of the indexFile calls; with the last of them
\* Promise.all and buildIndex resolve
IndexFileResume(i) ==
    /\ i \in 1..Len(tasks)
    /\ SetWorld(indexFileAfterAwait(World, tasks[i].filePath, tasks[i].content))
    /\ tasks' = SubSeq(tasks, 1, i - 1) \o SubSeq(tasks, i + 1, Len(tasks))
    /\ last' = IF Len(tasks) = 1 THEN Call("buildIndex", <<>>, Null, "resolved")
               ELSE Call("indexFile", tasks[i].filePath, tasks[i].content, "resolved")
    /\ UNCHANGED << trackerVars, agentVars, lightning >>

NextIndex ==
    \/ \E entry \in IndexEntries : tasks = <<>> /\ AddFile(entry[1], entry[2], "file")
    \/ \E order \in PathOrders(FilePaths) : BuildIndex(order)
    \/ \E i \in 1..Cardinality(IndexEntries) : IndexFileResume(i)

SpecIndex == Init /\ [][NextIndex]_vars

-----------------------------------------------------------------------------
(* relevance scores of files whose matching lines are alike *)

\* a line that begins with text and has k more characters
Padded(text, k) == text \o [i \in 1..k |-> "x"]

\* the beginnings of the searched lines: the query once, twice, and as a word
LineStarts == { WordFoo, WordFoo \o WordFoo, << " " >> \o WordFoo \o << " " >> }

\* count matched lines with one content
MatchedLines(content, count) ==
    [i \in 1..count |-> MatchedLine(i, content, 0, 0)]

\* calculateRelevanceScore(query, matchedLines) for a file with one matching
\* line and for a file with three, the lines being alike (one pair of files
\* is scored in a run)
ScoreFiles(query, content) ==
    /\ last.op # "calculateRelevanceScore"
    /\ last' = Returned("calculateRelevanceScore", << query, content >>, "returned",
                        [one   |-> calculateRelevanceScoreNumber(
                                       query, MatchedLines(content, 1)),
                         three |-> calculateRelevanceScoreNumber(
                                       query, MatchedLines(content, 3))])
    /\ UNCHANGED << storeVars, trackerVars, agentVars, lightning, tasks >>

NextScore ==
    \E start \in LineStarts : \E k \in 0..MaxPadding :
        ScoreFiles(WordFoo, Padded(start, k))

SpecScore == Init /\ [][NextScore]_vars

-----------------------------------------------------------------------------
(* Dependencies of selected files in two directories *)

PathAM   == << "a", "/", "m", ".", "j", "s" >>
PathBN   == << "b", "/", "n", ".", "j", "s" >>
PathAUJs == << "a", "/", "u", ".", "j", "s" >>
PathBUJs == << "b", "/", "u", ".", "j", "s" >>
PathBUTs == << "b", "/", "u", ".", "t", "s" >>
TextImportU == << "i", "m", "p", "o", "r", "t", " ", ".", "/", "u" >>
TextImportV == << "i", "m", "p", "o", "r", "t", " ", ".", "/", "v" >>

\* two importing files, one of them with an import that resolves to nothing,
\* and the files their imports can mean
RelatedEntries ==
    { << PathAM, TextImportU >>, << PathBN, TextImportU \o << NL >> \o TextImportV >>,
      << PathAUJs, WordFoo >>, << PathBUJs, WordBar >>, << PathBUTs, WordBaz >> }

\* the lists of one or two selected files that findRelevantFiles can hand
\* over: files of the store with their content
SelectedLists ==
    LET selected == { RelevantFile(p, files[p].content, Rat(1, 1), << "mentioned" >>, <<>>)
                      : p \in { q \in { PathAM, PathBN } : Has(files, q) } }
    IN  { << f >> : f \in selected }
            \cup { list \in selected \X selected : list[1] # list[2] }

\* await this.findRelatedFiles(relevantFiles), the session cache being empty
FindRelatedFiles(relevantFiles) ==
    /\ cache = EmptyMap
    /\ \E found \in { findRelatedFiles(World, relevantFiles) } :
           last' = Returned("findRelatedFiles", relevantFiles, "resolved", found)
    /\ UNCHANGED << storeVars, trackerVars, agentVars, lightning, tasks >>

NextRelated ==
    \/ \E entry \in RelatedEntries : AddFile(entry[1], entry[2], "file")
    \/ \E relevantFiles \in SelectedLists : FindRelatedFiles(relevantFiles)

SpecRelated == Init /\ [][NextRelated]_vars

-----------------------------------------------------------------------------
(* undo() started again before the first call has resolved *)

\* how many undo() calls the last run of synchronous code has started, and
\* how many awaited redo() calls have followed them
Started == IF last.op \in { "undo", "redo" } THEN last.value[1] ELSE 0
Redone  == IF last.op \in { "undo", "redo" } THEN last.value[2] ELSE 0

\* changeTracker.undo(), not awaited: called when nothing is pending, or by
\* the synchronous code that has just started another undo().  last.input
\* keeps the store as it was before the first of the calls.
StartUndo ==
    /\ undoStack # <<>>
    /\ tasks = <<>> \/ (last.op = "undo" /\ last.result = "pending")
    /\ Len(tasks) < MaxOverlap
    /\ IndexRoom
    /\ \E r \in { undoUntilAwait(World, Tracker) } :
           /\ SetWorld(r.w)
           /\ SetTracker(r.t)
           /\ tasks' = Append(tasks, r.call)
    /\ last' = Returned("undo", IF tasks = <<>> THEN StoreView(files) ELSE last.input,
                        "pending", << IF tasks = <<>> THEN 1 ELSE Started + 1, 0 >>)
    /\ UNCHANGED << agentVars, lightning >>

\* the job at the head of the microtask queue: the next continuation of the
\* call; what follows it, if anything, goes to the end of the queue
RunMicrotask ==
    /\ tasks # <<>>
    /\ \E r \in { resumeUndo(World, Tracker, Head(tasks)) } :
           /\ SetWorld(r.w)
           /\ SetTracker(r.t)
    /\ tasks' = IF Len(Head(tasks).then) = 1 THEN Tail(tasks)
                ELSE Append(Tail(tasks), [Head(tasks) EXCEPT !.then = Tail(@)])
    /\ last' = [last EXCEPT !.result = IF tasks' = <<>> THEN "resolved" ELSE "running"]
    /\ UNCHANGED << agentVars, lightning >>

\* await changeTracker.redo(), when no call is pending
RedoAwaited ==
    /\ tasks = <<>>
    /\ redoStack # <<>>
    /\ IndexRoom
    /\ \E r \in { redo(World, Tracker) } :
           /\ SetWorld(r.w)
           /\ SetTracker(r.t)
           /\ last' = Returned("redo", IF Started > 0 THEN last.input ELSE EmptyMap,
                               r.ret, << Started, Redone + 1 >>)
    /\ UNCHANGED << agentVars, lightning, tasks >>

NextOverlap ==
    \/ tasks = <<>> /\ CreateFile(PathA, WordFoo)
    \/ tasks = <<>> /\ EditFile(PathA, WordFoo, WordBar, FALSE)
    \/ tasks = <<>> /\ DeleteFileTool(PathA, TRUE)
    \/ tasks = <<>> /\ CreateFile(PathB, WordFoo)
    \/ StartUndo
    \/ RunMicrotask
    \/ RedoAwaited

SpecOverlap == Init /\ [][NextOverlap]_vars

-----------------------------------------------------------------------------
(* The undo and redo shortcuts while the agent works *)

\* The event loop can take a keydown event: no processMessage is at an await
\* that the microtask queue resolves (the store calls of gatherContext and of
\* the tools); the requests to the LLM are answered by later tasks.
TakesEvents == \A i \in 1..Len(requests) : requests[i].at \notin { "gatherContext", "execute" }

\* keydown of Cmd/Ctrl + Z: this.agent.undo().  The handler is a task of its
\* own, so the call has resolved before anything else runs.
AgentUndo ==
    /\ TakesEvents
    /\ IndexRoom
    /\ \E r \in { agentUndo(World, Tracker) } :
           /\ SetWorld(r.w)
           /\ SetTracker(r.t)
           /\ last' = Call("CodingAgent.undo", <<>>, Null, r.ret)
    /\ UNCHANGED << agentVars, lightning, tasks >>

\* keydown of Cmd/Ctrl + Shift + Z: this.agent.redo()
AgentRedo ==
    /\ TakesEvents
    /\ IndexRoom
    /\ \E r \in { agentRedo(World, Tracker) } :
           /\ SetWorld(r.w)
           /\ SetTracker(r.t)
           /\ last' = Call("CodingAgent.redo", <<>>, Null, r.ret)
    /\ UNCHANGED << agentVars, lightning, tasks >>

NextShortcut ==
    \/ NextAgent
    \/ AgentUndo
    \/ AgentRedo

SpecShortcut == Init /\ [][NextShortcut]_vars

-----------------------------------------------------------------------------
(* undo() and redo() over the LightningFileSystem *)

\* await changeTracker.undo() (revert) or redo(), window.fileSystem being
\* the LightningFileSystem.  last.input is the change, last.value the
\* deleteFile calls that the call has left running.
LightningReplay(revert) ==
    /\ tasks = <<>>
    /\ Len(IF revert THEN undoStack ELSE redoStack) > 0
    /\ \E r \in { lightningReplay(Lightning, Tracker, revert) } :
           /\ lightning' = r.l
           /\ SetTracker(r.t)
           /\ tasks' = r.started
           /\ last' = Returned(IF revert THEN "undo" ELSE "redo",
                               changeObjs[Top(IF revert THEN undoStack
                                              ELSE redoStack).change],
                               r.ret, r.started)
    /\ UNCHANGED << storeVars, agentVars >>

\* the deleteFile that an undo or redo started comes to its end
LightningDeleteFileEnds ==
    /\ tasks # <<>>
    /\ \E r \in { lightningDeleteFile(Lightning, Head(tasks)) } :
           /\ lightning' = r.l
           /\ last' = Call("lightning.deleteFile", Head(tasks), Null,
                           IF r.ok THEN "true" ELSE "false")
    /\ tasks' = Tail(tasks)
    /\ UNCHANGED << storeVars, trackerVars, agentVars >>

NextLightningReplay ==
    \/ \E callback \in Callbacks : AddListener(callback)
    \/ LightningCloneRepository
    \/ tasks = <<>> /\ RecordOther("create", PathA, Null, TextBar)
    \/ tasks = <<>> /\ RecordOther("edit", PathA, TextBar, WordFoo)
    \/ tasks = <<>> /\ RecordOther("delete", PathA, WordFoo, Null)
    \/ LightningReplay(TRUE)
    \/ LightningReplay(FALSE)
    \/ LightningDeleteFileEnds

SpecLightningReplay == Init /\ [][NextLightningReplay]_vars

-----------------------------------------------------------------------------
(* Imports of good and of bad data into a ledger that is listened to *)

\* data without a changes array: { } or { changes: 'none' }
InvalidData == [isArray |-> FALSE, changes |-> <<>>]

\* changeTracker.importChanges(data)
ImportChanges(data) ==
    /\ Len(changeObjs) + Len(data.changes) <= 2 * MaxChanges
    /\ \E r \in { importChanges(Tracker, data) } :
           /\ SetTracker(r.t)
           /\ last' = Returned("importChanges", data,
                               IF r.threw THEN "threw" ELSE "returned",
                               Len(data.changes))
    /\ UNCHANGED << storeVars, agentVars, lightning, tasks >>

NextImport ==
    \/ \E callback \in Callbacks : AddListener(callback)
    \/ RecordOther("edit", PathA, WordFoo, WordBar)
    \/ RecordOther("create", PathB, Null, WordFoo)
    \/ Undo
    \/ ImportChanges(InvalidData)
    \/ ImportChanges(exportChanges(Tracker))

SpecImport == Init /\ [][NextImport]_vars

-----------------------------------------------------------------------------
(* The LightningFileSystem driven through its own API *)

\* await lightningFileSystem.addFile(path, content, 'file')
LightningAddFile(path, content) ==
    /\ \E r \in { lightningAddFile(Lightning, path, content, "file") } :
           /\ lightning' = r.l
           /\ last' = Call("lightning.addFile", path, content,
                           IF r.threw THEN "threw" ELSE "resolved")
    /\ UNCHANGED << storeVars, trackerVars, agentVars, tasks >>

NextLightning ==
    \/ \E callback \in Callbacks : AddListener(callback)
    \/ LightningCloneRepository
    \/ \E path \in Paths : \E content \in StoreTexts : LightningAddFile(path, content)
    \/ \E path \in Paths : \E content \in StoreTexts : LightningUpdateFile(path, content)
    \/ \E path \in Paths : LightningDeleteFile(path)

SpecLightning == Init /\ [][NextLightning]_vars

-----------------------------------------------------------------------------
(* A ToolRegistry that tools come to and go from *)

\* two tools of one name, a tool of another name, and an object that is not
\* a tool
Tools == { Tool("read_file", "first", TRUE), Tool("read_file", "second", TRUE),
           Tool("write_file", "first", TRUE), Tool("plain", "object", FALSE) }

Categories == { "general", "file" }

\* the register calls that have added a name to a list
Registered ==
    LET RECURSIVE Count(_)
        Count(todo) == IF todo = {} THEN 0
                       ELSE LET c == CHOOSE x \in todo : TRUE
                            IN  Len(toolRegistry.categories[c]) + Count(todo \ { c })
    IN  Count(DOMAIN toolRegistry.categories)

\* toolRegistry.register(tool, category)
Register(tool, category) ==
    /\ Registered < MaxRegistered
    /\ \E r \in { register(toolRegistry, tool, category) } :
           /\ toolRegistry' = r.r
           /\ last' = Call("register", <<>>, Null,
                           IF r.threw THEN "threw" ELSE "returned")
    /\ UNCHANGED << storeVars, trackerVars, isProcessing, conversationHistory,
                    requests, lightning, tasks >>

\* toolRegistry.unregister(name)
Unregister(name) ==
    /\ toolRegistry' = unregister(toolRegistry, name)
    /\ last' = Call("unregister", <<>>, Null, "returned")
    /\ UNCHANGED << storeVars, trackerVars, isProcessing, conversationHistory,
                    requests, lightning, tasks >>

\* toolRegistry.clear()
ClearRegistry ==
    /\ toolRegistry' = clearRegistry(toolRegistry)
    /\ last' = Call("clear", <<>>, Null, "returned")
    /\ UNCHANGED << storeVars, trackerVars, isProcessing, conversationHistory,
                    requests, lightning, tasks >>

\* toolRegistry.list()
List ==
    /\ \E r \in { listTools(toolRegistry) } :
           last' = Returned("list", <<>>, IF r.threw THEN "threw" ELSE "returned",
                            r.toolList)
    /\ UNCHANGED << storeVars, trackerVars, agentVars, lightning, tasks >>

NextTools ==
    \/ \E tool \in Tools : \E category \in Categories : Register(tool, category)
    \/ \E name \in { tool.name : tool \in Tools } : Unregister(name)
    \/ ClearRegistry
    \/ List

SpecTools == Init /\ [][NextTools]_vars
-----------------------------------------------------------------------------
(* Claims about the store and its index *)

EmptyWorld == [files |-> EmptyMap, tokenIndex |-> {}, lineIndex |-> EmptyMap,
               symbolIndex |-> EmptyMap, fileHashes |-> EmptyMap, cache |-> EmptyMap,
               listeners |-> <<>>, delivered |-> <<>>, uncaught |-> FALSE]

\* the index state of one path: its lines, its tokens, its symbols
IndexOfPath(w, path) ==
    [lines   |-> IF Has(w.lineIndex, path) THEN w.lineIndex[path] ELSE <<>>,
     tokens  |-> { pair[1] : pair \in { x \in w.tokenIndex : x[2] = path } },
     symbols |-> getSymbols(w, path)]

\* what indexing the current store content of the path produces on an empty index
FreshIndexOfPath(path) ==
    IF Has(files, path) /\ files[path].type = "file" /\ Truthy(files[path].content)
    THEN IndexOfPath(indexFile(EmptyWorld, path, files[path].content), path)
    ELSE IndexOfPath(EmptyWorld, path)

\* C2: after any completed addFile, updateFile or deleteFile, the index state of
\* that path (lines, tokens mapping to it, symbols located in it) is exactly what
\* indexing its current store content produces, and is empty when the path is not
\* in the store as a non-empty file.
C2_IndexConsistent ==
    last.op \in { "addFile", "updateFile", "deleteFile" }
        => IndexOfPath(World, normalizePath(last.path))
               = FreshIndexOfPath(normalizePath(last.path))

Queries == { <<"f", "o", "o">>, <<"b", "a", "r">>, <<"b", "a", "z">> }

SearchOfPath(w, path, query) ==
    LET found == searchContent(w, query, FALSE)
    IN  IF Has(found, path) THEN found[path] ELSE <<>>

\* C3: once updateFile(p, c) has resolved, getFile(p) returns an entry whose
\* content is c, never an older content from the session cache, and
\* searchContent finds in p what it finds in c alone.
C3_ReadYourWrites ==
    last.op = "updateFile"
        => LET path == normalizePath(last.path)
           IN  /\ getFile(World, path).file.content = last.content
               /\ \A query \in Queries :
                      SearchOfPath(World, path, query)
                          = SearchOfPath(indexFile(EmptyWorld, path, last.content),
                                         path, query)

-----------------------------------------------------------------------------
(* Claims about undo and redo *)

\* undo() called n times, each call awaited
RECURSIVE UndoTimes(_, _, _)
UndoTimes(w, t, n) ==
    IF n = 0 THEN [w |-> w, t |-> t]
    ELSE LET r == undo(w, t) IN UndoTimes(r.w, r.t, n - 1)

\* redo() called n times, each call awaited
RECURSIVE RedoTimes(_, _, _)
RedoTimes(w, t, n) ==
    IF n = 0 THEN [w |-> w, t |-> t]
    ELSE LET r == redo(w, t) IN RedoTimes(r.w, r.t, n - 1)

\* C1: right after a sequence of tool calls that each recorded a change,
\* undo() n times and then redo() n times leaves the store with the same paths
\* and the same content per path, for every n up to the length of the
\* sequence; the undo stack is as it was and the redo stack is empty again.
C1_UndoRedoInverse ==
    last.run >= 1
        => \A n \in 0..last.run :
               LET undone == UndoTimes(World, Tracker, n)
                   redone == RedoTimes(undone.w, undone.t, n)
               IN  /\ StoreView(redone.w.files) = StoreView(files)
                   /\ redone.t.undoStack = undoStack
                   /\ redone.t.redoStack = <<>>

\* C1 witness: right after a sequence of two recorded tool calls, undoing both
\* empties the store, and redoing both brings back the edited content
C1_Witness ==
    /\ last.run >= 2
    /\ files # EmptyMap
    /\ LET undone == UndoTimes(World, Tracker, 2)
           redone == RedoTimes(undone.w, undone.t, 2)
       IN  /\ undone.w.files = EmptyMap
           /\ Len(undone.t.redoStack) = 2
           /\ \E path \in DOMAIN redone.w.files :
                  redone.w.files[path].content = TextBazBarBaz

\* the change an undo or redo entry refers to
ChangeOf(action) == changeObjs[action.change]

\* C4: undo() on a non-empty undo stack removes the top entry, leaves the store
\* with the inverse applied (create: the path is absent; edit: the path has the
\* change's old content; delete: the path exists with the change's old content)
\* and pushes the same entry on the redo stack; on an empty undo stack it
\* returns false and changes neither stack nor the store.
C4_UndoSemantics ==
    [][Undo =>
        IF undoStack = <<>>
        THEN /\ last'.result = "false"
             /\ UNCHANGED << undoStack, redoStack, files >>
        ELSE LET action == Top(undoStack)
                 change == ChangeOf(action)
                 path   == normalizePath(change.filePath)
             IN  /\ last'.result = "true"
                 /\ undoStack' = Front(undoStack)
                 /\ redoStack' = Append(redoStack, action)
                 /\ CASE change.type = "create" -> ~Has(files', path)
                      [] change.type = "edit" ->
                             /\ Has(files', path)
                             /\ files'[path].content = change.oldContent
                      [] change.type = "delete" ->
                             /\ Has(files', path)
                             /\ files'[path].content = change.oldContent
      ]_vars

\* C5: redo() on a non-empty redo stack removes the top entry, leaves the store
\* with the change applied again (create: the path exists with the change's
\* new content; edit: the path has the change's new content; delete: the path
\* is absent) and pushes the same entry on the undo stack; on an empty redo
\* stack it returns false and changes nothing.
C5_RedoSemantics ==
    [][Redo =>
        IF redoStack = <<>>
        THEN /\ last'.result = "false"
             /\ UNCHANGED << storeVars, trackerVars >>
        ELSE LET action == Top(redoStack)
                 change == ChangeOf(action)
                 path   == normalizePath(change.filePath)
             IN  /\ last'.result = "true"
                 /\ redoStack' = Front(redoStack)
                 /\ undoStack' = Append(undoStack, action)
                 /\ UNCHANGED << changes, changeObjs >>
                 /\ CASE change.type = "create" ->
                             /\ Has(files', path)
                             /\ files'[path].content = change.newContent
                      [] change.type = "edit" ->
                             /\ Has(files', path)
                             /\ files'[path].content = change.newContent
                      [] change.type = "delete" -> ~Has(files', path)
      ]_vars

\* C5 witness: a delete was redone while another undone change stays on the
\* redo stack
C5_Witness ==
    /\ last.op = "redo" /\ last.result = "true"
    /\ ChangeOf(Top(undoStack)).type = "delete"
    /\ redoStack # <<>>
    /\ ~Has(files, normalizePath(ChangeOf(Top(undoStack)).filePath))

C7_RecordClearsRedo ==
    [][Len(changeObjs') > Len(changeObjs) => redoStack' = <<>>]_vars

\* C7 witness: a tool call has just recorded a change after an undo, so that
\* the journal holds more changes than the undo stack
C7_Witness ==
    /\ last.result = "returned"
    /\ Len(undoStack) < Len(changeObjs)
    /\ redoStack = <<>>

-----------------------------------------------------------------------------
(* Claims about the file tools *)

\* s with every occurrence of pat replaced by the text new
RECURSIVE EveryOccurrenceReplaced(_, _, _)
EveryOccurrenceReplaced(s, pat, new) ==
    LET at == IndexOf(s, pat)
    IN  IF at = -1 THEN s
        ELSE SubSeq(s, 1, at) \o new
                 \o EveryOccurrenceReplaced(SubSeq(s, at + Len(pat) + 1, Len(s)),
                                            pat, new)

\* the path is in the store as a file
IsFileAt(path) == Has(files, path) /\ files[path].type = "file"

\* the change recorded by the step, when the step recorded exactly one
RecordedOne == Len(changeObjs') = Len(changeObjs) + 1

NewChange == changeObjs'[Len(changeObjs')]

\* C8: edit_file on a file fails when old_content does not occur in its
\* content, and when it occurs more than once without replace_all; a failed
\* call leaves the content as it was and records nothing.  With replace_all
\* every occurrence is replaced by new_content and one edit change is recorded.
C8_EditGuard ==
    [][\A edit \in ToolEdits :
          LET path == normalizePath(edit[1])
          IN  (EditFile(edit[1], edit[2], edit[3], edit[4]) /\ IsFileAt(path))
              => LET content == files[path].content
                     n       == CountMatches(content, edit[2])
                 IN  IF n = 0 \/ (n > 1 /\ ~edit[4])
                     THEN /\ last'.result = "threw"
                          /\ files'[path].content = content
                          /\ UNCHANGED << changeObjs, changes >>
                     ELSE edit[4]
                          => /\ last'.result = "returned"
                             /\ files'[path].content
                                    = EveryOccurrenceReplaced(content, edit[2], edit[3])
                             /\ RecordedOne
                             /\ NewChange.type = "edit"
      ]_vars

\* C9: create_file on a path that is in the store fails, leaves the content of
\* the path as it was, and records no change.
C9_CreateUniqueness ==
    [][\A create \in ToolCreates :
          LET path == normalizePath(create[1])
          IN  (CreateFile(create[1], create[2]) /\ Has(files, path))
              => /\ last'.result = "threw"
                 /\ files'[path].content = files[path].content
                 /\ UNCHANGED << changeObjs, changes >>
      ]_vars

\* C10: a write_file that returns has recorded exactly one change, for its
\* path: a create when the path was absent before the call and an edit
\* otherwise, with the content before the call as old content and the written
\* content as new content.
C10_WriteRecordsOne ==
    [][\A write \in ToolWrites :
          LET path == normalizePath(write[1])
          IN  (WriteFile(write[1], write[2]) /\ last'.result = "returned")
              => /\ RecordedOne
                 /\ NewChange.filePath = write[1]
                 /\ NewChange.type = IF Has(files, path) THEN "edit" ELSE "create"
                 /\ NewChange.oldContent
                        = IF Has(files, path) THEN files[path].content ELSE Null
                 /\ NewChange.newContent = write[2]
                 /\ changes'[write[1]]
                        = Append(IF Has(changes, write[1]) THEN changes[write[1]]
                                 ELSE <<>>,
                                 Len(changeObjs'))
      ]_vars

\* C11: delete_file fails unless confirm is true, and fails for a directory
\* and for a missing path; a failed call leaves the store and the tracker as
\* they were.  A call that succeeds leaves the path absent from the store and
\* has recorded exactly one delete change, for its path, whose old content is
\* the content the path had in the store before the call.
C11_DeleteGuard ==
    [][\A delete \in ToolDeletes :
          LET path == normalizePath(delete[1])
          IN  DeleteFileTool(delete[1], delete[2])
              => IF ~delete[2] \/ ~Has(files, path)
                        \/ files[path].type = "directory"
                 THEN /\ last'.result = "threw"
                      /\ UNCHANGED << files, trackerVars >>
                 ELSE /\ last'.result = "returned"
                      /\ ~Has(files', path)
                      /\ RecordedOne
                      /\ NewChange.type = "delete"
                      /\ NewChange.filePath = delete[1]
                      /\ NewChange.oldContent = files[path].content
                      /\ NewChange.newContent = Null
      ]_vars

-----------------------------------------------------------------------------
(* Claims about the tool registry *)

\* C12: every ToolRegistry.execute resolves, and resolves to a result that is
\* either a success without an error, or a failure with a null result and an
\* error text; a name that is not registered gives a failure.
C12_ErrorBoundary ==
    last.op = "execute"
        => /\ last.result = "resolved"
           /\ \/ last.value.success /\ last.value.error = Null
              \/ /\ ~last.value.success
                 /\ last.value.result = Null
                 /\ last.value.error # Null
           /\ last.input.name \notin DOMAIN parameters => ~last.value.success

\* C12 witness: a registered tool was called with valid arguments and its
\* operation threw; the call resolved to a failure carrying the message
C12_Witness ==
    /\ last.op = "execute"
    /\ last.result = "resolved"
    /\ last.input.name = "edit_file"
    /\ ~last.value.success
    /\ last.value.error = << "Failed to edit file: " >>

\* the required parameters the arguments omit
Omitted(params, props) ==
    { i \in 1..Len(params) : params[i].required /\ ~Has(props, params[i].name) }

\* the parameters supplied with a value that is not of the declared type
WrongTyped(params, props) ==
    { i \in 1..Len(params) :
        Has(props, params[i].name) /\ props[params[i].name].kind # params[i].type }

\* the parameters supplied with a value outside their enum
OutsideEnum(params, props) ==
    { i \in 1..Len(params) :
        /\ Has(props, params[i].name)
        /\ params[i].enum # Null
        /\ \A j \in 1..Len(params[i].enum) :
               JsString(params[i].enum[j]) # props[params[i].name] }

\* C13: for an arguments object that omits k required parameters and supplies
\* m parameters of the wrong declared type, none of the supplied ones having
\* an enum, validateArgs returns exactly k + m errors; and it returns no error
\* exactly when nothing required is omitted, every supplied parameter is of
\* its declared type, and every supplied enum parameter is one of its values.
C13_ValidationAggregation ==
    (last.op = "validateArgs" /\ last.input.arguments.kind = "object")
        => LET params == parameters[last.input.name]
               props  == last.input.arguments.props
               k      == Cardinality(Omitted(params, props))
               m      == Cardinality(WrongTyped(params, props))
           IN  /\ last.result = "returned"
               /\ (\A i \in 1..Len(params) :
                       Has(props, params[i].name) => params[i].enum = Null)
                      => Len(last.value) = k + m
               /\ last.value = <<>>
                      <=> /\ k = 0
                          /\ m = 0
                          /\ OutsideEnum(params, props) = {}

\* C13 witness: edit_file called without two of its required parameters and
\* with a replace_all that is not a boolean: three errors
C13_Witness ==
    /\ last.op = "validateArgs"
    /\ last.input.name = "edit_file"
    /\ DOMAIN last.input.arguments.props = { "file_path", "replace_all" }
    /\ last.input.arguments.props["file_path"].kind = "string"
    /\ last.input.arguments.props["replace_all"].kind = "number"
    /\ Len(last.value) = 3

-----------------------------------------------------------------------------
(* Claims about context selection *)

\* the stage of findRelevantFiles a reason belongs to
Stage(reason) ==
    CASE reason = << "directly_mentioned" >> -> 1
      [] reason = << "keyword_match" >> -> 2
      [] reason = << "dependency" >> -> 3

\* C14: in the list findRelevantFiles returns, every directly mentioned file
\* comes before every keyword match, and every keyword match before every
\* dependency.
C14_PriorityOrdering ==
    last.op = "findRelevantFiles"
        => \A i, j \in 1..Len(last.value) :
               i < j => Stage(last.value[i].reason) <= Stage(last.value[j].reason)

\* C15: findRelevantFiles(intent, maxFiles) returns at most maxFiles files.
C15_CandidateCap ==
    last.op = "findRelevantFiles" => Len(last.value) <= last.input.maxFiles

\* the length of the contents of a list of files
RECURSIVE TotalChars(_)
TotalChars(list) ==
    IF list = <<>> THEN 0 ELSE Len(Head(list).content) + TotalChars(Tail(list))

\* the candidates that fit one after the other: the longest prefix of the
\* list whose contents are within the limit
Fitting(list, limit) ==
    Max({ n \in 0..Len(list) : TotalChars(SubSeq(list, 1, n)) <= limit })

IsPartial(file) == file.reason[Len(file.reason)] = "_partial"

\* C16: when the next candidate does not fit in what remains of the budget,
\* then with at least 500 characters remaining the result ends with a
\* truncated prefix of that candidate, its score multiplied by 0.7 and its
\* reason suffixed _partial, and with fewer than 500 remaining the candidate
\* is left out; in both cases nothing after it is included.
C16_PartialFileRule ==
    last.op = "trimContextToLimit"
        => LET list      == last.input.relevantFiles
               limit     == last.input.limit
               n         == Fitting(list, limit)
               remaining == limit - TotalChars(SubSeq(list, 1, n))
               trimmed   == last.value
           IN  n < Len(list)
               => /\ SubSeq(trimmed, 1, n) = SubSeq(list, 1, n)
                  /\ IF remaining >= 500
                     THEN /\ Len(trimmed) = n + 1
                          /\ trimmed[n + 1].path = list[n + 1].path
                          /\ trimmed[n + 1].reason
                                 = list[n + 1].reason \o << "_partial" >>
                          /\ trimmed[n + 1].relevanceScore
                                 = RatTimes(list[n + 1].relevanceScore, 7, 10)
                          /\ \E k \in 1..Len(list[n + 1].content) :
                                 trimmed[n + 1].content
                                     = SubSeq(list[n + 1].content, 1, k)
                                           \o TruncatedMark
                     ELSE Len(trimmed) = n

\* C17: the contents of the files trimContextToLimit returns are together no
\* longer than the limit, the truncation marker included; at most one of the
\* files is a _partial one, and it is the last.
C17_BudgetBound ==
    last.op = "trimContextToLimit"
        => /\ TotalChars(last.value) <= last.input.limit
           /\ \A i \in 1..Len(last.value) :
                  IsPartial(last.value[i]) => i = Len(last.value)

\* C17 witness: the limit is 1100 and the candidates are 500 and 700
\* characters long; the first is returned whole and the second as a partial
C17_Witness ==
    /\ last.op = "trimContextToLimit"
    /\ last.input.limit = 1100
    /\ Len(last.input.relevantFiles) = 2
    /\ Len(last.input.relevantFiles[1].content) = 500
    /\ Len(last.value) = 2
    /\ ~IsPartial(last.value[1])
    /\ IsPartial(last.value[2])
    /\ TotalChars(last.value) > 900

-----------------------------------------------------------------------------
(* Claims about reindexing *)

\* the step is a store call that runs indexFile(path, content)
Reindexes(path, content) ==
    /\ Truthy(content)
    /\ AddFile(path, content, "file") \/ UpdateFile(path, content)

\* the call before the step was a store call that ran indexFile(path, content)
IndexedLast(path, content) ==
    /\ Truthy(content)
    /\ last.op \in { "addFile", "updateFile" }
    /\ last.path = path
    /\ last.content = content

\* C18: indexFile(p, c) run a second time with the same content, right after
\* the first, leaves the symbol index and the token index as they were.
C18_IdempotentReindex ==
    [][\A write \in StoreWrites :
          (IndexedLast(write[1], write[2]) /\ Reindexes(write[1], write[2]))
              => /\ symbolIndex' = symbolIndex
                 /\ tokenIndex' = tokenIndex
      ]_vars

\* C19: after indexFile(p, c1) followed by indexFile(p, c2) with another
\* content, the lines, tokens and symbols recorded for p are those of c2
\* alone.
C19_ReindexReplaces ==
    [][\A first \in StoreWrites : \A second \in StoreWrites :
          ( /\ first[1] = second[1]
            /\ first[2] # second[2]
            /\ IndexedLast(first[1], first[2])
            /\ Reindexes(second[1], second[2]) )
              => IndexOfPath(World', normalizePath(second[1]))
                     = IndexOfPath(indexFile(EmptyWorld, normalizePath(second[1]),
                                             second[2]),
                                   normalizePath(second[1]))
      ]_vars

-----------------------------------------------------------------------------
\* C20: The agent handles one prompt at a time: at most one processMessage
\* call is in progress; a call that arrives while isProcessing is set is
\* rejected and leaves the history, the store and the journal as they are;
\* and isProcessing is false again whenever no call is in progress, so that
\* a later prompt is accepted.
C20_SingleFlight ==
    /\ [](/\ Cardinality(InProgress) <= 1
          /\ isProcessing = (InProgress # {}))
    /\ [][\A message \in Prompts :
             ProcessMessage(message) =>
                 IF InProgress # {}
                 THEN /\ requests'[Len(requests')].at = "rejected"
                      /\ UNCHANGED << conversationHistory, storeVars, trackerVars >>
                 ELSE requests'[Len(requests')].at = "gatherContext"]_vars

\* a prompt was rejected while the first was in progress, the first ended in
\* an error after its tool calls changed the store, and a later prompt is
\* being handled
C20_Witness ==
    /\ Len(requests) = 3
    /\ requests[1].at = "threw"
    /\ requests[1].succeeded
    /\ requests[2].at = "rejected"
    /\ requests[3].at = "gatherContext"
    /\ isProcessing

-----------------------------------------------------------------------------
\* the events a callback was run with, in order
Received(log, listener) ==
    LET runs == SelectSeq(log, LAMBDA d : d.listener = listener)
    IN  [k \in 1..Len(runs) |-> << runs[k].event, runs[k].data >>]

\* C21: When a listener of the store or of the tracker throws, every other
\* listener is still run with the same events, the call that emitted them
\* does not throw, and what the call changes is changed: the file is added,
\* updated or deleted, the change is recorded.
C21_SubscriberIsolation ==
    /\ \A i \in 1..Len(listeners) :
           Received(delivered, i) = Received(delivered, 1)
    /\ \A i \in 1..Len(changeListeners) :
           Received(changeDelivered, i) = Received(changeDelivered, 1)
    /\ last.op \in { "addFile", "updateFile" }
           => /\ last.result = "resolved"
              /\ Len(delivered) = Len(listeners)
              /\ Has(files, normalizePath(last.path))
              /\ files[normalizePath(last.path)].content = last.content
    /\ last.op = "deleteFile"
           => /\ last.result \in { "true", "false" }
              /\ ~Has(files, normalizePath(last.path))
              /\ last.result = "true" => Len(delivered) = Len(listeners)
    /\ last.op = "recordChange"
           => /\ last.result = "returned"
              /\ Len(changeDelivered) = Len(changeListeners)
              /\ undoStack # <<>>
              /\ undoStack[Len(undoStack)].change = Len(changeObjs)

\* the first listener of the store throws and a second one is registered,
\* and the store has just updated a file; the same for the tracker, which
\* has recorded a change
C21_Witness ==
    /\ Len(listeners) = 2
    /\ listeners[1] = "throws"
    /\ Len(changeListeners) = 2
    /\ changeListeners[1] = "throws"
    /\ Len(changeDelivered) = 2
    /\ last.op = "updateFile"
    /\ Len(delivered) = 2
    /\ delivered[2].event = "file_updated"

-----------------------------------------------------------------------------
\* what every callback of a list was run with, when that is one event
OneEvent(log, callbacks, event) ==
    /\ Len(log) = Len(callbacks)
    /\ \A i \in 1..Len(log) : log[i].listener = i /\ log[i].event = event

\* C22: updateFile(p, c) emits exactly one event: file_added when p was
\* absent, file_updated with the previous content as oldContent and c as
\* newContent when p was present; afterwards the store holds c for p with
\* size Len(c).  Stated of VirtualFileSystem.updateFile and of
\* LightningFileSystem.updateFile.
C22_UpdateEmitsOne ==
    [][\A write \in StoreWrites :
          LET p == write[1]
              c == write[2]
          IN  /\ UpdateFile(p, c) =>
                    /\ IF Has(files, normalizePath(p))
                       THEN /\ OneEvent(delivered', listeners, "file_updated")
                            /\ \A i \in 1..Len(delivered') :
                                   /\ delivered'[i].data.oldContent
                                          = files[normalizePath(p)].content
                                   /\ delivered'[i].data.newContent = c
                       ELSE OneEvent(delivered', listeners, "file_added")
                    /\ Has(files', normalizePath(p))
                    /\ files'[normalizePath(p)].content = c
                    /\ files'[normalizePath(p)].size = Len(c)
              /\ LightningUpdateFile(p, c) =>
                    /\ IF lightningGetFile(lightning, p) # NoFile
                       THEN /\ OneEvent(lightning'.delivered, lightning.listeners,
                                        "file_updated")
                            /\ \A i \in 1..Len(lightning'.delivered) :
                                   /\ lightning'.delivered[i].data.oldContent
                                          = lightningGetFile(lightning, p).content
                                   /\ lightning'.delivered[i].data.newContent = c
                       ELSE OneEvent(lightning'.delivered, lightning.listeners,
                                     "file_added")
                    /\ lightningGetFile(lightning', p) # NoFile
                    /\ lightningGetFile(lightning', p).content = c
                    /\ lightningGetFile(lightning', p).size = Len(c)]_vars

-----------------------------------------------------------------------------
\* the changes of the undo stack, oldest first
UndoRefs == [i \in 1..Len(undoStack) |-> undoStack[i].change]

\* the last k changes that were recorded, in recording order
MostRecent(k, recorded) == [i \in 1..k |-> recorded - k + i]

\* a step that is a recordChange call
RecordStep ==
    /\ last'.op = "recordChange"
    /\ Len(changeObjs') = Len(changeObjs) + 1

\* C23 as stated: the undo stack holds at most maxHistorySize entries, and
\* after a recordChange that would exceed the bound the stack holds the
\* most recent maxHistorySize changes that were recorded, in recording order
C23_BoundedUndoHistory ==
    /\ [](Len(undoStack) <= maxHistorySize)
    /\ [][RecordStep /\ Len(undoStack) = maxHistorySize =>
             UndoRefs' = MostRecent(maxHistorySize, Len(changeObjs'))]_vars

\* C23, amended: the undo stack holds at most maxHistorySize entries; a
\* recordChange that would exceed the bound removes the oldest entry and
\* nothing else, so the stack holds, in recording order, the most recent
\* maxHistorySize of the changes that are still undoable; these are the most
\* recent maxHistorySize changes recorded when no change was undone and not
\* redone.
C23_OldestEvicted ==
    /\ [](Len(undoStack) <= maxHistorySize)
    /\ [](\A i, j \in 1..Len(undoStack) : i < j => UndoRefs[i] < UndoRefs[j])
    /\ [][RecordStep =>
             /\ UndoRefs' = (IF Len(undoStack) = maxHistorySize
                             THEN Tail(UndoRefs) ELSE UndoRefs)
                                \o << Len(changeObjs') >>
             /\ Len(undoStack) = maxHistorySize /\ Discarded = {} =>
                    UndoRefs' = MostRecent(maxHistorySize, Len(changeObjs'))]_vars

\* the 102nd change recorded after the 100th was undone: the oldest entry
\* left is the second change, and the 100th is not on the stack
C23_Witness ==
    /\ last.op = "recordChange"
    /\ Len(changeObjs) = maxHistorySize + 2
    /\ Len(undoStack) = maxHistorySize
    /\ UndoRefs[1] = 2
    /\ maxHistorySize \notin Undoable

-----------------------------------------------------------------------------
\* the changes of a file by ascending timestamp, before the call
InTimestampOrder(path) ==
    LET list == changes[path]
        Rank(ref) == 1 + Cardinality({ i \in 1..Len(list) :
                           changeObjs[list[i]].timestamp < changeObjs[ref].timestamp })
    IN  [n \in 1..Len(list) |->
            CHOOSE ref \in { list[i] : i \in 1..Len(list) } : Rank(ref) = n]

IsEdit(ref) == changeObjs[ref].type = "edit"

\* the positions compression keeps: a create, a delete, the first edit of a run
Kept(sorted) ==
    { i \in 1..Len(sorted) : ~IsEdit(sorted[i]) \/ i = 1 \/ ~IsEdit(sorted[i - 1]) }

\* the last position of the run of edits that starts at i
RunEnd(sorted, i) ==
    Max({ j \in i..Len(sorted) : \A k \in i..j : IsEdit(sorted[k]) })

\* the n-th smallest member of a set of positions
Nth(positions, n) ==
    CHOOSE i \in positions : Cardinality({ j \in positions : j < i }) = n - 1

RECURSIVE Removed(_)
Removed(paths) ==
    IF paths = {} THEN 0
    ELSE LET path == CHOOSE p \in paths : TRUE
         IN  Len(changes[path]) - Len(changes'[path]) + Removed(paths \ {path})

\* C24: compressHistory replaces, per file, each maximal run of consecutive
\* edits (in timestamp order) by one edit with the old content of the first
\* and the new content and timestamp of the last; creates and deletes are
\* kept unchanged and in order; the returned number is the number of
\* journal entries removed.
C24_CompressMergesRuns ==
    [][last'.op = "compressHistory" =>
          /\ DOMAIN changes' = DOMAIN changes
          /\ last'.value = Removed(DOMAIN changes)
          /\ \A path \in DOMAIN changes :
                 LET sorted == InTimestampOrder(path)
                     kept   == Kept(sorted)
                 IN  /\ Len(changes'[path]) = Cardinality(kept)
                     /\ \A n \in 1..Cardinality(kept) :
                            LET i      == Nth(kept, n)
                                before == changeObjs[sorted[i]]
                                after  == changeObjs'[changes'[path][n]]
                                final  == changeObjs[sorted[RunEnd(sorted, i)]]
                            IN  IF IsEdit(sorted[i])
                                THEN /\ after.type = "edit"
                                     /\ after.filePath = path
                                     /\ after.oldContent = before.oldContent
                                     /\ after.newContent = final.newContent
                                     /\ after.timestamp = final.timestamp
                                ELSE after = before]_vars

\* a create and two edits of one file compressed to the create and one edit
\* that spans both
C24_Witness ==
    /\ last.op = "compressHistory"
    /\ last.value = 1
    /\ Has(changes, PathA)
    /\ Len(changes[PathA]) = 2
    /\ changeObjs[changes[PathA][1]].type = "create"
    /\ changeObjs[changes[PathA][2]].type = "edit"
    /\ changeObjs[changes[PathA][2]].oldContent = WordFoo
    /\ changeObjs[changes[PathA][2]].newContent = WordFoo
    /\ changeObjs[changes[PathA][2]].timestamp = 3

-----------------------------------------------------------------------------
\* what the round trip is to keep of a change
Essence(change) ==
    [id |-> change.id, type |-> change.type,
     oldContent |-> change.oldContent, newContent |-> change.newContent]

\* C25: importChanges(exportChanges()) yields a ledger in which each file
\* path is grouped with exactly the same changes (same id, kind, old and new
\* content) as before the export, while the undo stack and the redo stack
\* are empty.
C25_ExportImportRoundTrip ==
    [][last'.op = "importChanges" =>
          /\ last'.result = "returned"
          /\ DOMAIN changes' = DOMAIN changes
          /\ \A path \in DOMAIN changes :
                 /\ Len(changes'[path]) = Len(changes[path])
                 /\ { Essence(changeObjs'[changes'[path][i]]) :
                          i \in 1..Len(changes'[path]) }
                      = { Essence(changeObjs[changes[path][i]]) :
                             i \in 1..Len(changes[path]) }
                 /\ \A i \in 1..Len(changes'[path]) :
                        changeObjs'[changes'[path][i]].filePath = path
          /\ undoStack' = <<>>
          /\ redoStack' = <<>>]_vars

\* a ledger of two files imported from its export: the two changes of one
\* file are grouped again, newest first
C25_Witness ==
    /\ last.op = "importChanges"
    /\ last.value = 3
    /\ DOMAIN changes = { PathA, PathB }
    /\ Len(changes[PathA]) = 2
    /\ changeObjs[changes[PathA][1]].id > changeObjs[changes[PathA][2]].id
    /\ undoStack = <<>> /\ redoStack = <<>>

-----------------------------------------------------------------------------
\* C29: once a Change has been passed to recordChange, no later ledger
\* operation (undo, redo, compressHistory, clearFile, export and import)
\* alters its kind, path, old content, new content or timestamp, so an entry
\* on the undo or redo stack replays the content it was recorded with.
C29_RecordedChangesImmutable ==
    [][\A ref \in 1..Len(changeObjs) :
          /\ changeObjs'[ref].type = changeObjs[ref].type
          /\ changeObjs'[ref].filePath = changeObjs[ref].filePath
          /\ changeObjs'[ref].oldContent = changeObjs[ref].oldContent
          /\ changeObjs'[ref].newContent = changeObjs[ref].newContent
          /\ changeObjs'[ref].timestamp = changeObjs[ref].timestamp]_vars

-----------------------------------------------------------------------------
\* C28: every Change recorded by the file tools has old content null
\* exactly when its kind is create and new content null exactly when its
\* kind is delete; an edit never has a null old content.  This is to hold
\* also when write_file targets a path that exists as a directory.
C28_KindContentAgreement ==
    \A ref \in 1..Len(changeObjs) :
        /\ changeObjs[ref].oldContent = Null <=> changeObjs[ref].type = "create"
        /\ changeObjs[ref].newContent = Null <=> changeObjs[ref].type = "delete"

-----------------------------------------------------------------------------
\* the lines of the file at a path, as the store holds them
LinesOf(path) == Split(files[normalizePath(path)].content, NL)

\* C26: for a file of N lines and any numeric start_line and end_line (zero,
\* negative, beyond N, or start greater than end), read_file does not fail
\* and returns exactly the lines whose 1-based number lies in both
\* [start_line, end_line] and [1, N], each labelled with its true line number.
C26_ReadFileClamps ==
    (/\ last.op = "read_file"
     /\ Has(files, normalizePath(last.path))
     /\ last.input[1] # Undefined
     /\ last.input[2] # Undefined)
    => /\ last.result = "returned"
       /\ LET lines  == LinesOf(last.path)
              wanted == { n \in 1..Len(lines) :
                            last.input[1][1] <= n /\ n <= last.input[2][1] }
          IN  /\ Len(last.value) = Cardinality(wanted)
              /\ \A i \in 1..Len(last.value) :
                     /\ last.value[i].number \in wanted
                     /\ last.value[i].line = lines[last.value[i].number]
                     /\ i > 1 => last.value[i - 1].number < last.value[i].number

-----------------------------------------------------------------------------
\* indexing the files of the store one after another on a cleared index
RECURSIVE IndexedInTurn(_, _)
IndexedInTurn(w, paths) ==
    IF paths = {} THEN w
    ELSE LET path == CHOOSE p \in paths : TRUE
         IN  IndexedInTurn(indexFile(w, path, w.files[path].content), paths \ {path})

\* how often a list holds a value
Occurrences(list, value) == Cardinality({ i \in 1..Len(list) : list[i] = value })

\* two lists with the same members, each as often
SameMultiset(one, other) ==
    /\ Len(one) = Len(other)
    /\ \A i \in 1..Len(one) : Occurrences(one, one[i]) = Occurrences(other, one[i])

\* C30: the indexFile calls of buildIndex may interleave in any order; the
\* token index, line index, file hashes and symbol index (symbol lists
\* compared as multisets) that result are those of indexing the files one
\* after another on a cleared index.
C30_BuildIndexOrderIndependent ==
    (last.op = "buildIndex" /\ last.result = "resolved") =>
        \E inTurn \in { IndexedInTurn(clearIndex(World), FilePaths) } :
            /\ tokenIndex = inTurn.tokenIndex
            /\ lineIndex = inTurn.lineIndex
            /\ fileHashes = inTurn.fileHashes
            /\ DOMAIN symbolIndex = DOMAIN inTurn.symbolIndex
            /\ \A name \in DOMAIN symbolIndex :
                   SameMultiset(symbolIndex[name], inTurn.symbolIndex[name])

\* an index built over three files, two of which define one symbol, whose
\* symbol list is in another order than indexing in turn gives
C30_Witness ==
    /\ last.op = "buildIndex"
    /\ last.result = "resolved"
    /\ Cardinality(FilePaths) = 3
    /\ DOMAIN fileHashes = FilePaths
    /\ symbolIndex # IndexedInTurn(clearIndex(World), FilePaths).symbolIndex

-----------------------------------------------------------------------------
\* C27: for a fixed query, the score calculateRelevanceScore gives a file
\* with 3 matching lines is greater than or equal to the score it gives a
\* file with 1 matching line when the matching lines are otherwise identical.
C27_RelevanceMonotone ==
    last.op = "calculateRelevanceScore" =>
        ~NumberLess(last.value.three, last.value.one)


-----------------------------------------------------------------------------
\* the paths of a list of files
PathsOf(list) == { list[i].path : i \in 1..Len(list) }

\* the dependency candidates of selected files when every import is resolved
\* from the file it stands in
CandidatesFromImporter(relevantFiles) ==
    UNION { { resolveImportPath(World, extractImports(relevantFiles[i].content)[k],
                                relevantFiles[i].path)
              : k \in 1..Len(extractImports(relevantFiles[i].content)) }
            : i \in 1..Len(relevantFiles) }
        \ { Null }

\* C31: the dependency candidates that findRelatedFiles gives are the paths
\* that the relative imports of each selected file resolve to from the
\* directory of that file, with the extensions probed in their fixed order
\* and the first existing path taken; an import that resolves to nothing
\* gives no candidate.
C31_ImportsResolveFromImporter ==
    last.op = "findRelatedFiles" =>
        PathsOf(last.value) = CandidatesFromImporter(last.input)

-----------------------------------------------------------------------------
\* the changes that the entries of a stack refer to
RefsOf(stack) == { stack[i].change : i \in 1..Len(stack) }

\* the change is in the list of changes of its path
InJournal(ref) ==
    /\ Has(changes, changeObjs[ref].filePath)
    /\ \E i \in 1..Len(changes[changeObjs[ref].filePath]) :
           changes[changeObjs[ref].filePath][i] = ref

\* C32: in every reachable state, each change that an entry of the undo
\* stack or of the redo stack refers to is also in the list of changes of
\* its path, after any sequence of recordChange, undo, redo, clearFile,
\* compressHistory and importChanges.
C32_StackEntriesInJournal ==
    \A ref \in RefsOf(undoStack) \cup RefsOf(redoStack) : InJournal(ref)

-----------------------------------------------------------------------------
\* C33: when a second undo() is started before the first has resolved, the
\* two entries are on the redo stack in the order they were popped from the
\* undo stack once both calls have resolved, and two awaited redo() calls
\* then bring the store back to what it was before the two undos, whatever
\* the kinds of the two changes.
C33_OverlappingUndoKeepsOrder ==
    /\ (last.op = "undo" /\ last.result = "resolved" /\ Started = 2) =>
           /\ Len(redoStack) >= 2
           /\ redoStack[Len(redoStack) - 1].change > redoStack[Len(redoStack)].change
    /\ (last.op = "redo" /\ Started = 2 /\ Redone = 2) =>
           StoreView(files) = last.input

-----------------------------------------------------------------------------
\* C34: while a processMessage is in progress (isProcessing is true), an
\* undo() or redo() of the agent that the keyboard shortcut triggers neither
\* pops nor pushes the undo stack or the redo stack.
C34_NoUndoDuringRequest ==
    [][(isProcessing /\ (AgentUndo \/ AgentRedo)) =>
           UNCHANGED << undoStack, redoStack >>]_vars

-----------------------------------------------------------------------------
\* the call that has just resolved is an undo of a create or a redo of a
\* delete, and it resolved with true
DeletionReplayed ==
    /\ last.op \in { "undo", "redo" }
    /\ last.result = "true"
    /\ last.input.type = (IF last.op = "undo" THEN "create" ELSE "delete")

\* C35: when undo() of a create change or redo() of a delete change
\* resolves with true, the deletion of the file has come to its end (no
\* deleteFile is still running, the file is not on the disk, when it was
\* there file_deleted has gone to every listener), also with the
\* LightningFileSystem, whose deleteFile is asynchronous.
C35_ReplayResolvesAfterDeletion ==
    DeletionReplayed =>
        /\ tasks = <<>>
        /\ ~Has(lightning.disk, DiskPath(last.input.filePath))

-----------------------------------------------------------------------------
\* C36: undo() and redo() leave the journal untouched: neither call adds,
\* removes or reorders an entry of the lists of changes of the paths, no new
\* Change comes into being for the store mutation the call performs, and a
\* redo() that succeeds takes one entry off the redo stack and leaves the
\* rest of it.
C36_ReplayLeavesJournal ==
    [][(Undo \/ Redo) =>
           /\ changes' = changes
           /\ changeObjs' = changeObjs
           /\ (Redo /\ last'.result = "true") => redoStack' = Front(redoStack)]_vars

\* a redo has succeeded with another undone change still waiting on the redo
\* stack, the journal holding the changes
C36_Witness ==
    /\ last.op = "redo"
    /\ last.result = "true"
    /\ Len(redoStack) >= 1
    /\ Len(undoStack) >= 1
    /\ \E path \in DOMAIN changes : Len(changes[path]) >= 2

-----------------------------------------------------------------------------
\* the changes of a path as getChanges(path) lists them
ListedChanges(objs, lists, path) ==
    [i \in 1..Len(lists[path]) |-> Essence(objs[lists[path][i]])]

\* C37: after importChanges(exportChanges()), getChanges(path) gives, for
\* every path, the changes in the order it gave them before the export,
\* which is the order they were recorded in.
C37_ExportImportKeepsOrder ==
    [][last'.op = "importChanges" =>
          \A path \in DOMAIN changes :
              /\ Has(changes', path)
              /\ ListedChanges(changeObjs', changes', path)
                     = ListedChanges(changeObjs, changes, path)]_vars

-----------------------------------------------------------------------------
\* C38: importChanges called with data that has no changes array throws,
\* and the lists of changes, the undo stack and the redo stack are as they
\* were before the call, and no listener has been notified.
C38_RejectedImportChangesNothing ==
    [][(last'.op = "importChanges" /\ ~last'.input.isArray) =>
           /\ last'.result = "threw"
           /\ UNCHANGED << changes, changeObjs, undoStack, redoStack >>
           /\ changeDelivered' = <<>>]_vars

\* a rejected import into a ledger with changes of two files, with entries
\* on both stacks and a listener
C38_Witness ==
    /\ last.op = "importChanges"
    /\ last.result = "threw"
    /\ DOMAIN changes = { PathA, PathB }
    /\ undoStack # <<>>
    /\ redoStack # <<>>
    /\ changeListeners # <<>>

-----------------------------------------------------------------------------
\* C39: after LightningFileSystem.addFile(p, c, 'file') has resolved,
\* getFile(p) gives a file entry with content c, updateFile(p, c2) treats p
\* as present (file_updated with old content c), and deleteFile(p) returns
\* true.
C39_LightningAddGetRoundTrip ==
    (last.op = "lightning.addFile" /\ last.result = "resolved") =>
        /\ lightningGetFile(lightning, last.path).type = "file"
        /\ lightningGetFile(lightning, last.path).content = last.content
        /\ Readable(lightning.disk, lightningNormalizePath(last.path))
        /\ lightning.disk[DiskPath(lightningNormalizePath(last.path))].content
               = last.content
        /\ lightningDeleteFile(lightning, last.path).ok

-----------------------------------------------------------------------------
\* how often the lists of the categories name a tool
Listings(r, name) ==
    Cardinality({ << c, i >> \in (DOMAIN r.categories) \X (1..MaxRegistered) :
                      i <= Len(r.categories[c]) /\ r.categories[c][i] = name })

\* C40: after any sequence of register, unregister and clear on a
\* ToolRegistry, registering one tool name twice included, every tool name
\* that a category lists is the name of a registered tool and every
\* registered tool name is listed exactly once, so that list() never meets
\* a name without a tool.
C40_RegistryCategoryAgreement ==
    /\ \A c \in DOMAIN toolRegistry.categories :
           \A i \in 1..Len(toolRegistry.categories[c]) :
               Has(toolRegistry.tools, toolRegistry.categories[c][i])
    /\ \A name \in DOMAIN toolRegistry.tools : Listings(toolRegistry, name) = 1
    /\ last.op = "list" => last.result = "returned"

\* list() has thrown on a listed name that has no tool
ListMeetsMissingTool == last.op = "list" /\ last.result = "threw"

====
